---- MODULE Spec2Model ----
(***************************************************************************)
(* Aquaform: a declarative schema manager.  The model covers the           *)
(* reconciliation engine of src/aquaform.py (Postgres-REST backend, "pg")  *)
(* and src/aquaformmy.py (MySQL backend, "my"): the table descriptors and  *)
(* their dict round trip, the diff, the dependency graph and its           *)
(* topological sort, the planner, and the apply / destroy handlers with    *)
(* their effect on the state document.                                     *)
(*                                                                         *)
(* Nine specifications:                                                    *)
(*  - Spec: one run of a command (init, plan, apply, destroy) on a         *)
(*    configuration and a state file;                                      *)
(*  - DiffSpec: _compare_tables applied to a pair of tables;               *)
(*  - GraphSpec: _build_dependency_graph and _topological_sort applied to  *)
(*    a desired set;                                                       *)
(*  - ResolveSpec: _resolve_vars applied to two connection fields and an   *)
(*    environment;                                                         *)
(*  - LoaderSpec: the construction of the reconciler, which loads the      *)
(*    configuration files one after the other with _load_config;           *)
(*  - AlterSpec: alter_table applied to a table and its delta;             *)
(*  - ConnSpec: the MySQL apply and destroy handlers, one step per         *)
(*    connect, operation and close of each MySQLClient;                    *)
(*  - RenameSpec: one run of a command on a recorded table whose name or   *)
(*    connection the configuration has changed;                            *)
(*  - RetrySpec: apply repeated against a database whose statements may    *)
(*    fail during the first run, with weak fairness on the steps.          *)
(*                                                                         *)
(* Python values are modelled as follows.                                  *)
(*  - Optional[X]: the empty sequence <<>> is None, <<x>> is the value x.  *)
(*  - dict with insertion order: a sequence of entries [k |-> key,         *)
(*    v |-> value] with unique keys (Put / Get / Del below).               *)
(*  - dict with optional keys (to_dict results, the diff): a function      *)
(*    whose DOMAIN is the set of keys present.                             *)
(*  - str: a TLA+ string, except for the connection fields, environment    *)
(*    variable names and values, which _resolve_vars takes apart: these    *)
(*    are sequences of one-character strings.                              *)
(***************************************************************************)
EXTENDS Integers, Sequences, FiniteSets, TLC

VARIABLES
    backend,                \* "pg" (aquaform.py) or "my" (aquaformmy.py)
    tables,                 \* self.tables: resource id -> Table
    state,                  \* self.state.state: the in-memory state document
    file,                   \* the state file: None when it does not exist
    clock,                  \* datetime.now() of the next save_state
    pc,                     \* position of the running command
    cmd,                    \* the command of this run and its argument
    changes,                \* apply: the result of plan()
    table_order,            \* apply / destroy: the order iterated
    table_name_to_resource, \* destroy: table name -> resource id
    idx,                    \* index of the next loop iteration
    log,                    \* adapter operations attempted so far
    clients,                \* the MySQLClient objects built so far, each
                            \* with the state of its connection
    database,               \* the database behind the adapter, where a
                            \* specification follows it (None elsewhere)
    state0,                 \* the state document at the start of the run
    file0,                  \* the state file at the start of the run
    dependency_graph,       \* _build_dependency_graph() called on its own
    old_table,              \* _compare_tables called on its own: old_table,
    new_table,              \* new_table
    delta,                  \* and the delta it returned
    args,                   \* the arguments of any other function called
                            \* on its own
    result                  \* and what it returned

\* The variables of the functions called on their own; a run of a command
\* leaves them alone.
call == <<args, result>>

unit == <<dependency_graph, old_table, new_table, delta, call>>

vars == <<backend, tables, state, file, clock, pc, cmd, changes, table_order,
          table_name_to_resource, idx, log, clients, database, state0, file0,
          unit>>

(***************************************************************************)
(* Optional values and ordered dicts                                       *)
(***************************************************************************)
None == <<>>

Some(x) == <<x>>

Entry(key, val) == [k |-> key, v |-> val]

Keys(d) == [i \in 1..Len(d) |-> d[i].k]

KeySet(d) == {d[i].k : i \in 1..Len(d)}

Has(d, key) == \E i \in 1..Len(d) : d[i].k = key

Get(d, key) == d[CHOOSE i \in 1..Len(d) : d[i].k = key].v

Put(d, key, val) ==
    IF Has(d, key)
    THEN [i \in 1..Len(d) |-> IF d[i].k = key THEN Entry(key, val) ELSE d[i]]
    ELSE Append(d, Entry(key, val))

Del(d, key) == SelectSeq(d, LAMBDA e : e.k # key)

RECURSIVE PutAll(_, _, _)
PutAll(d, es, i) ==
    IF i > Len(es) THEN d ELSE PutAll(Put(d, es[i].k, es[i].v), es, i + 1)

\* {key(x): x for x in xs}: first occurrence fixes the position, the last
\* occurrence the value.
DictOf(es) == PutAll(<<>>, es, 1)

Reverse(s) == [i \in 1..Len(s) |-> s[Len(s) + 1 - i]]

Range(s) == {s[i] : i \in 1..Len(s)}

(***************************************************************************)
(* Data model: Column, ForeignKey, Table and their dict forms              *)
(***************************************************************************)
NoAction == "NO ACTION"

\* A value of a one-or-many key (columns, reference_columns, primary_key)
\* of a descriptor: a list or a bare string.
ListValue(l) == [many |-> TRUE, val |-> l]

StrValue(x) == [many |-> FALSE, str |-> x]

\* Mutant of OneOrMany: a bare string is dropped.
OneOrManyListOnly(v) == IF v.many THEN v.val ELSE <<>>

\* v if isinstance(v, list) else [v]
OneOrMany(v) == IF v.many THEN v.val ELSE <<v.str>>

ColumnFromDict(data) ==
    [name |-> data.name, type |-> data.type, nullable |-> data.nullable,
     default |-> IF "default" \in DOMAIN data THEN data.default ELSE None]

\* Mutant of ColumnToDict: the default is never written.
ColumnToDictNoDefault(col) ==
    [name |-> col.name, type |-> col.type, nullable |-> col.nullable]

ColumnToDict(col) ==
    IF col.default # None
    THEN [name |-> col.name, type |-> col.type, nullable |-> col.nullable,
          default |-> col.default]
    ELSE [name |-> col.name, type |-> col.type, nullable |-> col.nullable]

\* Mutant of ColumnEquals: the default is not compared.
ColumnEqualsNoDefault(a, b) ==
    /\ a.name = b.name
    /\ a.type = b.type
    /\ a.nullable = b.nullable

ColumnEquals(a, b) ==
    /\ a.name = b.name
    /\ a.type = b.type
    /\ a.nullable = b.nullable
    /\ a.default = b.default

ForeignKeyFromDict(data) ==
    [columns |-> OneOrMany(data.columns),
     reference_table |-> data.reference_table,
     reference_columns |-> OneOrMany(data.reference_columns),
     on_delete |-> IF "on_delete" \in DOMAIN data THEN data.on_delete ELSE NoAction,
     on_update |-> IF "on_update" \in DOMAIN data THEN data.on_update ELSE NoAction]

ForeignKeyToDict(fk) ==
    [columns |-> ListValue(fk.columns),
     reference_table |-> fk.reference_table,
     reference_columns |-> ListValue(fk.reference_columns),
     on_delete |-> fk.on_delete,
     on_update |-> fk.on_update]

\* Mutant of ForeignKeyEquals: the columns are compared with the other
\* key's reference_columns.
ForeignKeyEqualsCrossed(a, b) ==
    /\ a.columns = b.reference_columns
    /\ a.reference_table = b.reference_table
    /\ a.reference_columns = b.reference_columns
    /\ a.on_delete = b.on_delete
    /\ a.on_update = b.on_update

ForeignKeyEquals(a, b) ==
    /\ a.columns = b.columns
    /\ a.reference_table = b.reference_table
    /\ a.reference_columns = b.reference_columns
    /\ a.on_delete = b.on_delete
    /\ a.on_update = b.on_update

\* Python truthiness of Table.foreign_keys: None and [] are both falsy.
Truthy(fks) == fks # None /\ fks[1] # <<>>

OrEmpty(fks) == IF Truthy(fks) THEN fks[1] ELSE <<>>

\* The connection fields (url, key / host, user, password, database) are
\* kept together in the field conn.
TableFromDict(resource_id, data) ==
    [resource_id |-> resource_id,
     name |-> data.name,
     conn |-> data.conn,
     columns |-> [i \in 1..Len(data.columns) |-> ColumnFromDict(data.columns[i])],
     primary_key |-> OneOrMany(data.primary_key),
     foreign_keys |->
        IF "foreign_keys" \in DOMAIN data
        THEN Some([i \in 1..Len(data.foreign_keys) |->
                      ForeignKeyFromDict(data.foreign_keys[i])])
        ELSE None]

\* Mutant of TableToDict: a url given as ${URL} is written resolved.
TableToDictResolved(t) ==
    LET conn == IF "url" \in DOMAIN t.conn /\ t.conn.url = <<"$", "{", "U", "R", "L", "}">>
                THEN [t.conn EXCEPT !.url = <<"d", "b">>]
                ELSE t.conn
    IN  IF Truthy(t.foreign_keys)
        THEN [name |-> t.name, conn |-> conn,
              columns |-> [i \in 1..Len(t.columns) |-> ColumnToDict(t.columns[i])],
              primary_key |-> ListValue(t.primary_key),
              foreign_keys |-> [i \in 1..Len(t.foreign_keys[1]) |->
                                   ForeignKeyToDict(t.foreign_keys[1][i])]]
        ELSE [name |-> t.name, conn |-> conn,
              columns |-> [i \in 1..Len(t.columns) |-> ColumnToDict(t.columns[i])],
              primary_key |-> ListValue(t.primary_key)]

TableToDict(t) ==
    IF Truthy(t.foreign_keys)
    THEN [name |-> t.name, conn |-> t.conn,
          columns |-> [i \in 1..Len(t.columns) |-> ColumnToDict(t.columns[i])],
          primary_key |-> ListValue(t.primary_key),
          foreign_keys |-> [i \in 1..Len(t.foreign_keys[1]) |->
                               ForeignKeyToDict(t.foreign_keys[1][i])]]
    ELSE [name |-> t.name, conn |-> t.conn,
          columns |-> [i \in 1..Len(t.columns) |-> ColumnToDict(t.columns[i])],
          primary_key |-> ListValue(t.primary_key)]

(***************************************************************************)
(* Diff engine: _compare_tables                                            *)
(***************************************************************************)
ColumnsMap(cols) == DictOf([i \in 1..Len(cols) |-> Entry(cols[i].name, cols[i])])

FksMap(fks) == DictOf([i \in 1..Len(fks) |-> Entry(fks[i].columns, fks[i])])

Values(d) == [i \in 1..Len(d) |-> d[i].v]

AddColumns(old, new) ==
    Values(SelectSeq(ColumnsMap(new.columns),
                     LAMBDA e : ~Has(ColumnsMap(old.columns), e.k)))

ModifyColumns(old, new) ==
    LET om == ColumnsMap(old.columns)
        hit == SelectSeq(ColumnsMap(new.columns),
                         LAMBDA e : Has(om, e.k) /\ ~ColumnEquals(e.v, Get(om, e.k)))
    IN  [i \in 1..Len(hit) |-> <<Get(om, hit[i].k), hit[i].v>>]

RemoveColumns(old, new) ==
    Values(SelectSeq(ColumnsMap(old.columns),
                     LAMBDA e : ~Has(ColumnsMap(new.columns), e.k)))

\* Mutant of AddForeignKeys: a modified key is not added again.
AddForeignKeysOnlyNew(old, new) ==
    Values(SelectSeq(FksMap(OrEmpty(new.foreign_keys)),
                     LAMBDA e : ~Has(FksMap(OrEmpty(old.foreign_keys)), e.k)))

\* add_foreign_keys: first the keys only in new, then the new version of
\* each modified key.
AddForeignKeys(old, new) ==
    LET om == FksMap(OrEmpty(old.foreign_keys))
        nm == FksMap(OrEmpty(new.foreign_keys))
        added == SelectSeq(nm, LAMBDA e : ~Has(om, e.k))
        modified == SelectSeq(nm, LAMBDA e : Has(om, e.k)
                                     /\ ~ForeignKeyEquals(e.v, Get(om, e.k)))
    IN  Values(added) \o Values(modified)

\* remove_foreign_keys: first the old version of each modified key (in the
\* order of new), then the keys only in old.
RemoveForeignKeys(old, new) ==
    LET om == FksMap(OrEmpty(old.foreign_keys))
        nm == FksMap(OrEmpty(new.foreign_keys))
        modified == SelectSeq(nm, LAMBDA e : Has(om, e.k)
                                     /\ ~ForeignKeyEquals(e.v, Get(om, e.k)))
        removed == SelectSeq(om, LAMBDA e : ~Has(nm, e.k))
    IN  [i \in 1..Len(modified) |-> Get(om, modified[i].k)] \o Values(removed)

\* Mutant of CompareTables: a table name or a connection that differs is
\* part of the delta.
CompareTablesWithName(old, new) ==
    LET fkpart == Truthy(old.foreign_keys) \/ Truthy(new.foreign_keys)
        present ==
            {f \in {"add_columns"} : AddColumns(old, new) # <<>>}
            \cup {f \in {"modify_columns"} : ModifyColumns(old, new) # <<>>}
            \cup {f \in {"remove_columns"} : RemoveColumns(old, new) # <<>>}
            \cup {f \in {"modify_primary_key"} : old.primary_key # new.primary_key}
            \cup {f \in {"add_foreign_keys"} :
                    fkpart /\ AddForeignKeys(old, new) # <<>>}
            \cup {f \in {"remove_foreign_keys"} :
                    fkpart /\ RemoveForeignKeys(old, new) # <<>>}
            \cup {f \in {"rename"} : old.name # new.name \/ old.conn # new.conn}
    IN  [f \in present |->
            CASE f = "add_columns" -> AddColumns(old, new)
              [] f = "modify_columns" -> ModifyColumns(old, new)
              [] f = "remove_columns" -> RemoveColumns(old, new)
              [] f = "modify_primary_key" -> <<old.primary_key, new.primary_key>>
              [] f = "add_foreign_keys" -> AddForeignKeys(old, new)
              [] f = "remove_foreign_keys" -> RemoveForeignKeys(old, new)
              [] f = "rename" -> <<old.name, new.name>>]

CompareTables(old, new) ==
    LET fkpart == Truthy(old.foreign_keys) \/ Truthy(new.foreign_keys)
        present ==
            {f \in {"add_columns"} : AddColumns(old, new) # <<>>}
            \cup {f \in {"modify_columns"} : ModifyColumns(old, new) # <<>>}
            \cup {f \in {"remove_columns"} : RemoveColumns(old, new) # <<>>}
            \cup {f \in {"modify_primary_key"} : old.primary_key # new.primary_key}
            \cup {f \in {"add_foreign_keys"} :
                    fkpart /\ AddForeignKeys(old, new) # <<>>}
            \cup {f \in {"remove_foreign_keys"} :
                    fkpart /\ RemoveForeignKeys(old, new) # <<>>}
    IN  [f \in present |->
            CASE f = "add_columns" -> AddColumns(old, new)
              [] f = "modify_columns" -> ModifyColumns(old, new)
              [] f = "remove_columns" -> RemoveColumns(old, new)
              [] f = "modify_primary_key" -> <<old.primary_key, new.primary_key>>
              [] f = "add_foreign_keys" -> AddForeignKeys(old, new)
              [] f = "remove_foreign_keys" -> RemoveForeignKeys(old, new)]

(***************************************************************************)
(* Dependency graph and topological sort                                   *)
(***************************************************************************)
RECURSIVE AddEdges(_, _, _, _)
\* Mutant of AddEdges: the reference is appended whether or not the
\* referenced table is a node of the graph.
AddEdgesUnguarded(graph, name, fks, j) ==
    IF j > Len(fks) THEN graph
    ELSE AddEdges(Put(graph, name, Append(Get(graph, name), fks[j].reference_table)),
                  name, fks, j + 1)

AddEdges(graph, name, fks, j) ==
    IF j > Len(fks) THEN graph
    ELSE AddEdges(IF Has(graph, fks[j].reference_table)
                  THEN Put(graph, name, Append(Get(graph, name), fks[j].reference_table))
                  ELSE graph,
                  name, fks, j + 1)

RECURSIVE AddTableEdges(_, _, _)
AddTableEdges(graph, tbls, i) ==
    IF i > Len(tbls) THEN graph
    ELSE AddTableEdges(AddEdges(graph, tbls[i].v.name,
                                OrEmpty(tbls[i].v.foreign_keys), 1),
                       tbls, i + 1)

\* graph: table name -> list of the table names it depends on.
BuildDependencyGraph(tbls) ==
    AddTableEdges(DictOf([i \in 1..Len(tbls) |-> Entry(tbls[i].v.name, <<>>)]),
                  tbls, 1)

\* Mutant of Neighbors: the dependencies of a node are not followed.
NeighborsNone(graph, node) == <<>>

Neighbors(graph, node) == IF Has(graph, node) THEN Get(graph, node) ELSE <<>>

RECURSIVE Visit(_, _, _)
RECURSIVE VisitEach(_, _, _, _)
\* Mutant of Visit: the node is not marked as visited when it is emitted.
VisitNotMarked(graph, node, st) ==
    IF node \in st.visited THEN st
    ELSE IF node \in st.temp_visited
         THEN [st EXCEPT !.warned = @ \cup {node}]
         ELSE LET entered == [st EXCEPT !.temp_visited = @ \cup {node}]
                  after == VisitEach(graph, Neighbors(graph, node), 1, entered)
              IN  [after EXCEPT !.temp_visited = @ \ {node},
                                !.result = Append(@, node)]

\* st: [result, visited, temp_visited, warned]; warned collects the nodes
\* named by the cycle warning.
Visit(graph, node, st) ==
    IF node \in st.visited THEN st
    ELSE IF node \in st.temp_visited
         THEN [st EXCEPT !.warned = @ \cup {node}]
         ELSE LET entered == [st EXCEPT !.temp_visited = @ \cup {node}]
                  after == VisitEach(graph, Neighbors(graph, node), 1, entered)
              IN  [after EXCEPT !.temp_visited = @ \ {node},
                                !.visited = @ \cup {node},
                                !.result = Append(@, node)]

VisitEach(graph, nodes, j, st) ==
    IF j > Len(nodes) THEN st
    ELSE VisitEach(graph, nodes, j + 1, Visit(graph, nodes[j], st))

TopologicalRun(graph) ==
    VisitEach(graph, Keys(graph), 1,
              [result |-> <<>>, visited |-> {}, temp_visited |-> {}, warned |-> {}])

\* Mutant of TopologicalSort: the post-order is reversed before it is
\* returned.
TopologicalSortReversed(graph) == Reverse(TopologicalRun(graph).result)

TopologicalSort(graph) == TopologicalRun(graph).result

(***************************************************************************)
(* State store                                                             *)
(***************************************************************************)
EmptyState == [resources |-> <<>>, last_updated |-> None]

\* The content of a state file that is not a JSON text: "syntax" when
\* json.load raises json.JSONDecodeError (not JSON, or empty), "encoding"
\* when it raises UnicodeDecodeError (bytes that are not UTF-8).
Malformed(kind) == [malformed |-> kind]

IsMalformed(f) == f # None /\ "malformed" \in DOMAIN f[1]

\* _load_state raises: only json.JSONDecodeError is caught.
LoadRaises(f) == IsMalformed(f) /\ f[1].malformed = "encoding"

\* _load_state, when it returns: a missing file and a file that is not
\* JSON give the empty document.
LoadState(f) == IF f = None \/ IsMalformed(f) THEN EmptyState ELSE f[1]

GetResource(st, resource_id) ==
    IF Has(st.resources, resource_id) THEN Some(Get(st.resources, resource_id)) ELSE None

AddResource(st, resource_id, resource) ==
    [st EXCEPT !.resources = Put(@, resource_id, resource)]

\* Mutant of RemoveResource: every resource is removed.
RemoveResourceAll(st, resource_id) == [st EXCEPT !.resources = <<>>]

RemoveResource(st, resource_id) ==
    [st EXCEPT !.resources = Del(@, resource_id)]

\* save_state stamps last_updated and returns the stamped document, which
\* is both the new in-memory state and the new file content.
Stamped(st, now) == [st EXCEPT !.last_updated = Some(now)]

(***************************************************************************)
(* Planner                                                                 *)
(***************************************************************************)
\* Mutant of PlanTable: an Update is emitted also when the delta is empty.
PlanTableAlways(st, resource_id, table) ==
    LET current_state == GetResource(st, resource_id)
    IN  IF current_state = None
        THEN Some([action |-> "create", table |-> table])
        ELSE Some([action |-> "update", table |-> table,
                   changes |-> CompareTables(TableFromDict(resource_id, current_state[1]),
                                             table)])

PlanTable(st, resource_id, table) ==
    LET current_state == GetResource(st, resource_id)
    IN  IF current_state = None
        THEN Some([action |-> "create", table |-> table])
        ELSE LET table_changes ==
                     CompareTables(TableFromDict(resource_id, current_state[1]), table)
             IN  IF DOMAIN table_changes # {}
                 THEN Some([action |-> "update", table |-> table,
                            changes |-> table_changes])
                 ELSE None

RECURSIVE PlanDesired(_, _, _, _)
PlanDesired(st, tbls, i, acc) ==
    IF i > Len(tbls) THEN acc
    ELSE LET c == PlanTable(st, tbls[i].k, tbls[i].v)
         IN  PlanDesired(st, tbls, i + 1,
                         IF c = None THEN acc ELSE Put(acc, tbls[i].k, c[1]))

RECURSIVE PlanDeletes(_, _, _, _)
PlanDeletes(st, tbls, i, acc) ==
    IF i > Len(st.resources) THEN acc
    ELSE PlanDeletes(st, tbls, i + 1,
                     IF ~Has(tbls, st.resources[i].k)
                     THEN Put(acc, st.resources[i].k,
                              [action |-> "delete",
                               table_name |-> st.resources[i].v.name])
                     ELSE acc)

\* plan(): resource id -> change record, in the order the records are set.
Plan(tbls, st) == PlanDeletes(st, tbls, 1, PlanDesired(st, tbls, 1, <<>>))

\* create_actions / update_actions / delete_actions of apply: the changes of
\* one action keyed by table name; a later change of the same name replaces
\* an earlier one.
ChangeName(c) == IF c.action = "delete" THEN c.table_name ELSE c.table.name

ActionsOf(chs, action) ==
    LET sel == SelectSeq(chs, LAMBDA e : e.v.action = action)
    IN  DictOf([i \in 1..Len(sel) |->
                   Entry(ChangeName(sel[i].v), <<sel[i].k, sel[i].v>>)])

(***************************************************************************)
(* _resolve_vars (Postgres-REST backend only)                              *)
(***************************************************************************)
\* "${" + ident + "}"
Placeholder(ident) == <<"$", "{">> \o ident \o <<"}">>

\* s.startswith(prefix)
StartsWith(s, prefix) ==
    Len(s) >= Len(prefix) /\ SubSeq(s, 1, Len(prefix)) = prefix

\* s.endswith(suffix)
EndsWith(s, suffix) ==
    Len(s) >= Len(suffix) /\ SubSeq(s, Len(s) - Len(suffix) + 1, Len(s)) = suffix

\* Mutant of ResolveOne: a variable that is not defined resolves to "".
ResolveOneEmptyDefault(v, environ) ==
    IF StartsWith(v, <<"$", "{">>) /\ EndsWith(v, <<"}">>)
    THEN LET env_var == SubSeq(v, 3, Len(v) - 1)
         IN  IF env_var \in DOMAIN environ THEN environ[env_var] ELSE <<>>
    ELSE v

\* What _resolve_vars does to one of its two arguments: env_var = v[2:-1],
\* os.environ.get(env_var, v).
ResolveOne(v, environ) ==
    IF StartsWith(v, <<"$", "{">>) /\ EndsWith(v, <<"}">>)
    THEN LET env_var == SubSeq(v, 3, Len(v) - 1)
         IN  IF env_var \in DOMAIN environ THEN environ[env_var] ELSE v
    ELSE v

ResolveVars(url, key, environ) ==
    <<ResolveOne(url, environ), ResolveOne(key, environ)>>

(***************************************************************************)
(* Inputs: configurations and recorded states                              *)
(***************************************************************************)
\* At most MaxFail adapter operations of a run fail.
MaxFail == 1

\* At most MaxRecorded resources are recorded in the initial state file.
MaxRecorded == 2

RIDs == <<"r1", "r2", "r3", "r4">>

Names == <<"A", "B", "C">>

NameSet == Range(Names)

\* The connection fields of every authored table: placeholders, and on
\* MySQL two texts.
Conn(b) ==
    IF b = "pg"
    THEN [url |-> Placeholder(<<"U", "R", "L">>), key |-> Placeholder(<<"K", "E", "Y">>)]
    ELSE [host |-> Placeholder(<<"H", "O", "S", "T">>), user |-> <<"r", "o", "o", "t">>,
          password |-> Placeholder(<<"P", "W">>), database |-> <<"a", "p", "p">>]

\* os.environ during a run: URL and HOST are defined, KEY and PW are not.
Environ ==
    [n \in {<<"U", "R", "L">>, <<"H", "O", "S", "T">>} |-> <<"d", "b">>]

Column(name, type, nullable, default) ==
    [name |-> name, type |-> type, nullable |-> nullable, default |-> default]

FkColumn(ref) == CASE ref = "A" -> "a_id" [] ref = "B" -> "b_id" [] OTHER -> "c_id"

FkTo(ref) ==
    [columns |-> <<FkColumn(ref)>>, reference_table |-> ref,
     reference_columns |-> <<"id">>, on_delete |-> "CASCADE", on_update |-> NoAction]

\* The authored foreign_keys of resource i: absent or one key referencing
\* any of the names (itself and names outside the desired set included);
\* the first resource may also author the empty list.
FkChoices(i) ==
    {None} \cup {Some(<<FkTo(ref)>>) : ref \in NameSet}
    \cup (IF i = 1 THEN {Some(<<>>)} ELSE {})

FkColumns(fks) ==
    [i \in 1..Len(OrEmpty(fks)) |-> Column(OrEmpty(fks)[i].columns[1], "UUID", TRUE, None)]

\* A desired table as the loader builds it.
NewTable(resource_id, name, b, fks) ==
    [resource_id |-> resource_id, name |-> name, conn |-> Conn(b),
     columns |-> <<Column("id", "UUID", FALSE, None),
                   Column("email", "VARCHAR(255)", FALSE, None),
                   Column("created_at", "TIMESTAMPTZ", FALSE, Some("CURRENT_TIMESTAMP"))>>
                 \o FkColumns(fks),
     primary_key |-> <<"id">>,
     foreign_keys |-> fks]

\* An earlier version of the table: no created_at, email nullable, no
\* foreign key.
OldTable(resource_id, name, b) ==
    [resource_id |-> resource_id, name |-> name, conn |-> Conn(b),
     columns |-> <<Column("id", "UUID", FALSE, None),
                   Column("email", "VARCHAR(255)", TRUE, None)>>,
     primary_key |-> <<"id">>,
     foreign_keys |-> None]

\* The names a desired resource may carry: its own, and for the second
\* resource also the name of the first (one table name under two ids).
NameChoices(i) == IF i = 2 THEN {Names[1], Names[2]} ELSE {Names[i]}

Configs(b) ==
    UNION {{[i \in 1..n |-> Entry(RIDs[i], NewTable(RIDs[i], nm[i], b, fk[i]))] :
               nm \in {f \in [1..n -> NameSet] : \A i \in 1..n : f[i] \in NameChoices(i)},
               fk \in {f \in [1..n -> UNION {FkChoices(i) : i \in 1..n}] :
                          \A i \in 1..n : f[i] \in FkChoices(i)}} :
           n \in 0..Len(Names)}

\* What the state file may record for resource i: nothing, the desired
\* table, an earlier version of it; for an id that is not desired, a table
\* of any name (ids 3 and 4 only).
Recorded(b, tbls, i) ==
    IF Has(tbls, RIDs[i])
    THEN {None, Some(TableToDict(Get(tbls, RIDs[i]))),
          Some(TableToDict(OldTable(RIDs[i], Get(tbls, RIDs[i]).name, b)))}
    ELSE IF i >= 3
         THEN {None} \cup {Some(TableToDict(OldTable(RIDs[i], n, b))) : n \in NameSet}
         ELSE {None}

ResourcesOf(rec) ==
    LET present == SelectSeq([i \in 1..Len(RIDs) |-> i], LAMBDA i : rec[i] # None)
    IN  [j \in 1..Len(present) |-> Entry(RIDs[present[j]], rec[present[j]][1])]

Files(b, tbls) ==
    {None, Some(Malformed("syntax")), Some(Malformed("encoding"))}
    \cup {Some([resources |-> ResourcesOf(<<e1, e2, e3, e4>>), last_updated |-> Some(0)]) :
            e1 \in Recorded(b, tbls, 1), e2 \in Recorded(b, tbls, 2),
            e3 \in Recorded(b, tbls, 3), e4 \in Recorded(b, tbls, 4)}

Init ==
    /\ backend \in {"pg", "my"}
    /\ tables \in Configs(backend)
    /\ file \in {f \in Files(backend, tables) : Len(LoadState(f).resources) <= MaxRecorded}
    /\ state = LoadState(file)
    /\ clock = 1
    /\ pc = IF LoadRaises(file) THEN "aborted" ELSE "idle"
    /\ cmd = [name |-> "none", arg |-> None]
    /\ changes = <<>>
    /\ table_order = <<>>
    /\ table_name_to_resource = <<>>
    /\ idx = 1
    /\ log = <<>>
    /\ state0 = state
    /\ file0 = file
    /\ clients = <<>>
    /\ database = None
    /\ dependency_graph = None
    /\ old_table = None
    /\ new_table = None
    /\ delta = None
    /\ args = None
    /\ result = None

(***************************************************************************)
(* Adapter outcomes                                                        *)
(***************************************************************************)
\* "ok": the operation returned success; "fail": it returned failure;
\* "noconn": MySQLClient.connect() returned False and the operation was
\* skipped (MySQL only).
Results(b) == IF b = "my" THEN {"ok", "fail", "noconn"} ELSE {"ok", "fail"}

Failures(l) == Len(SelectSeq(l, LAMBDA e : e.res # "ok"))

Outcomes(b, l) == IF Failures(l) < MaxFail THEN Results(b) ELSE {"ok"}

\* The connection fields the client of an operation is built with:
\* SupabaseClient(url, key) after _resolve_vars; MySQLClient(host, user,
\* password, database) with the fields of the table as they are.
ClientConn(b, conn) ==
    IF b = "pg"
    THEN [url |-> ResolveVars(conn.url, conn.key, Environ)[1],
          key |-> ResolveVars(conn.url, conn.key, Environ)[2]]
    ELSE conn

Op(op, name, resource_id, conn, res) ==
    [op |-> op, name |-> name, rid |-> resource_id, conn |-> conn, res |-> res]

(***************************************************************************)
(* apply                                                                   *)
(***************************************************************************)
\* The order the delete loop iterates: table_order on Postgres-REST,
\* reversed(table_order) on MySQL.
DeleteOrder(b, order) == IF b = "my" THEN Reverse(order) ELSE order

PhaseOrder(b, phase, order) ==
    IF phase = "delete" THEN DeleteOrder(b, order) ELSE order

\* Mutant of NextPhase: the delete loop runs before the create loop.
NextPhaseDeleteFirst(phase) ==
    CASE phase = "update" -> "delete"
      [] phase = "delete" -> "create"
      [] phase = "create" -> "save"

NextPhase(phase) ==
    CASE phase = "update" -> "create"
      [] phase = "create" -> "delete"
      [] phase = "delete" -> "save"

\* The next loop iteration, from iteration i of the loop of phase on, whose
\* table name has an action of that phase; "save" when the three loops are
\* over.  Iterations without an action do nothing.
RECURSIVE Seek(_, _, _, _, _)
Seek(b, chs, order, phase, i) ==
    IF phase = "save" THEN [pc |-> "save", idx |-> 1]
    ELSE IF i > Len(order) THEN Seek(b, chs, order, NextPhase(phase), 1)
    ELSE IF Has(ActionsOf(chs, phase), PhaseOrder(b, phase, order)[i])
         THEN [pc |-> phase, idx |-> i]
         ELSE Seek(b, chs, order, phase, i + 1)

\* save_state(): stamp and write; the run is over.
SaveAndFinish(st) ==
    /\ state' = Stamped(st, clock)
    /\ file' = Some(Stamped(st, clock))
    /\ clock' = clock + 1
    /\ pc' = "done"
    /\ idx' = 1

\* Move to position pos with state st; the trailing save_state() of apply
\* is part of the step that ends the last loop.
Continue(st, pos) ==
    IF pos.pc = "save"
    THEN SaveAndFinish(st)
    ELSE /\ state' = st
         /\ pc' = pos.pc
         /\ idx' = pos.idx
         /\ UNCHANGED <<file, clock>>

\* The state after an adapter operation that returned res: recorded on
\* success only.
\* Mutant of AfterAlter: the table is recorded whatever the outcome.
AfterAlterAlways(st, resource_id, table, res) ==
    AddResource(st, resource_id, TableToDict(table))

AfterAlter(st, resource_id, table, res) ==
    IF res = "ok" THEN AddResource(st, resource_id, TableToDict(table)) ELSE st

\* Mutant of AfterCreate: the table is recorded whatever the outcome.
AfterCreateAlways(st, resource_id, table, res) ==
    AddResource(st, resource_id, TableToDict(table))

AfterCreate(st, resource_id, table, res) ==
    IF res = "ok" THEN AddResource(st, resource_id, TableToDict(table)) ELSE st

\* Mutant of AfterDrop: the resource is never removed from the state.
AfterDropNever(st, resource_id, res) == st

AfterDrop(st, resource_id, res) ==
    IF res = "ok" THEN RemoveResource(st, resource_id) ELSE st

\* apply() up to the first adapter operation.
StartApply ==
    /\ pc = "idle"
    /\ cmd' = [name |-> "apply", arg |-> None]
    /\ LET chs == Plan(tables, state)
           order == TopologicalSort(BuildDependencyGraph(tables))
       IN  IF chs = <<>>
           THEN /\ pc' = "done"
                /\ UNCHANGED <<state, file, clock, changes, table_order, idx>>
           ELSE /\ changes' = chs
                /\ table_order' = order
                /\ Continue(state, Seek(backend, chs, order, "update", 1))
    /\ UNCHANGED <<backend, tables, table_name_to_resource, log, state0, file0>>
    /\ UNCHANGED <<clients, database, unit>>

\* The iteration of the update loop at idx, then on to the next operation.
ApplyUpdate ==
    /\ pc = "update"
    /\ LET table_name == table_order[idx]
           resource_id == Get(ActionsOf(changes, "update"), table_name)[1]
           table == Get(ActionsOf(changes, "update"), table_name)[2].table
       IN  \E res \in Outcomes(backend, log) :
              /\ log' = Append(log, Op("alter", table.name, resource_id,
                                      ClientConn(backend, table.conn), res))
              /\ Continue(AfterAlter(state, resource_id, table, res),
                          Seek(backend, changes, table_order, "update", idx + 1))
    /\ UNCHANGED <<backend, tables, cmd, changes, table_order,
                   table_name_to_resource, state0, file0>>
    /\ UNCHANGED <<clients, database, unit>>

\* The iteration of the create loop at idx, then on to the next operation.
ApplyCreate ==
    /\ pc = "create"
    /\ LET table_name == table_order[idx]
           resource_id == Get(ActionsOf(changes, "create"), table_name)[1]
           table == Get(ActionsOf(changes, "create"), table_name)[2].table
       IN  \E res \in Outcomes(backend, log) :
              /\ log' = Append(log, Op("create", table.name, resource_id,
                                      ClientConn(backend, table.conn), res))
              /\ Continue(AfterCreate(state, resource_id, table, res),
                          Seek(backend, changes, table_order, "create", idx + 1))
    /\ UNCHANGED <<backend, tables, cmd, changes, table_order,
                   table_name_to_resource, state0, file0>>
    /\ UNCHANGED <<clients, database, unit>>

\* The iteration of the delete loop at idx, then on to save_state().
ApplyDelete ==
    /\ pc = "delete"
    /\ LET table_name == DeleteOrder(backend, table_order)[idx]
           resource_id == Get(ActionsOf(changes, "delete"), table_name)[1]
           current_state == GetResource(state, resource_id)
       IN  \E res \in Outcomes(backend, log) :
              /\ log' = Append(log, Op("drop", table_name, resource_id,
                                      ClientConn(backend, current_state[1].conn), res))
              /\ Continue(AfterDrop(state, resource_id, res),
                          Seek(backend, changes, table_order, "delete", idx + 1))
    /\ UNCHANGED <<backend, tables, cmd, changes, table_order,
                   table_name_to_resource, state0, file0>>
    /\ UNCHANGED <<clients, database, unit>>

(***************************************************************************)
(* destroy                                                                 *)
(***************************************************************************)
RECURSIVE AddRecordedNames(_, _, _)
AddRecordedNames(map, resources, i) ==
    IF i > Len(resources) THEN map
    ELSE AddRecordedNames(IF ~Has(map, resources[i].v.name)
                          THEN Put(map, resources[i].v.name, resources[i].k)
                          ELSE map,
                          resources, i + 1)

\* Table name -> resource id: the desired tables first, then the recorded
\* tables whose name is not mapped yet.
TableNameToResource(tbls, st) ==
    AddRecordedNames(DictOf([i \in 1..Len(tbls) |-> Entry(tbls[i].v.name, tbls[i].k)]),
                     st.resources, 1)

\* The order destroy iterates: table_order on Postgres-REST,
\* reversed(table_order) on MySQL.
DestroyOrder(b, order) == IF b = "my" THEN Reverse(order) ELSE order

\* destroy(resource_id): the whole handler.
DestroyOne(resource_id) ==
    /\ pc = "idle"
    /\ cmd' = [name |-> "destroy", arg |-> Some(resource_id)]
    /\ pc' = "done"
    /\ LET current_state == GetResource(state, resource_id)
       IN  IF current_state = None
           THEN UNCHANGED <<state, file, clock, log>>
           ELSE \E res \in Outcomes(backend, log) :
                   /\ log' = Append(log, Op("drop", current_state[1].name, resource_id,
                                           ClientConn(backend, current_state[1].conn),
                                           res))
                   /\ IF res = "ok"
                      THEN /\ state' = Stamped(AfterDrop(state, resource_id, res), clock)
                           /\ file' = Some(state')
                           /\ clock' = clock + 1
                      ELSE UNCHANGED <<state, file, clock>>
    /\ UNCHANGED <<backend, tables, changes, table_order, table_name_to_resource,
                   idx, state0, file0>>
    /\ UNCHANGED <<clients, database, unit>>

\* The next iteration of the destroy loop, from i on, that reaches the
\* drop: the name is mapped and the mapped resource is recorded; 0 when the
\* loop is over.
RECURSIVE SeekDestroy(_, _, _, _)
SeekDestroy(order, map, st, i) ==
    IF i > Len(order) THEN 0
    ELSE IF Has(map, order[i]) /\ GetResource(st, Get(map, order[i])) # None
         THEN i
         ELSE SeekDestroy(order, map, st, i + 1)

ContinueDestroy(st, i) ==
    IF i = 0
    THEN SaveAndFinish(st)
    ELSE /\ state' = st
         /\ pc' = "destroy"
         /\ idx' = i
         /\ UNCHANGED <<file, clock>>

\* destroy() without a resource id, up to the first drop.
StartDestroyAll ==
    /\ pc = "idle"
    /\ cmd' = [name |-> "destroy", arg |-> None]
    /\ LET order == DestroyOrder(backend, TopologicalSort(BuildDependencyGraph(tables)))
           map == TableNameToResource(tables, state)
       IN  IF map = <<>>
           THEN /\ pc' = "done"
                /\ UNCHANGED <<state, file, clock, table_order,
                               table_name_to_resource, idx>>
           ELSE /\ table_order' = order
                /\ table_name_to_resource' = map
                /\ ContinueDestroy(state, SeekDestroy(order, map, state, 1))
    /\ UNCHANGED <<backend, tables, changes, log, state0, file0>>
    /\ UNCHANGED <<clients, database, unit>>

\* The iteration of the destroy loop at idx, then on to the next drop or to
\* save_state().
DestroyStep ==
    /\ pc = "destroy"
    /\ LET table_name == table_order[idx]
           resource_id == Get(table_name_to_resource, table_name)
           state_data == GetResource(state, resource_id)
       IN  \E res \in Outcomes(backend, log) :
              /\ log' = Append(log, Op("drop", table_name, resource_id,
                                      ClientConn(backend, state_data[1].conn), res))
              /\ LET st == AfterDrop(state, resource_id, res)
                 IN  ContinueDestroy(st, SeekDestroy(table_order, table_name_to_resource,
                                                     st, idx + 1))
    /\ UNCHANGED <<backend, tables, cmd, changes, table_order,
                   table_name_to_resource, state0, file0>>
    /\ UNCHANGED <<clients, database, unit>>

(***************************************************************************)
(* plan and init                                                           *)
(***************************************************************************)
PlanCmd ==
    /\ pc = "idle"
    /\ cmd' = [name |-> "plan", arg |-> None]
    /\ changes' = Plan(tables, state)
    /\ pc' = "done"
    /\ UNCHANGED <<backend, tables, state, file, clock, table_order,
                   table_name_to_resource, idx, log, state0, file0>>
    /\ UNCHANGED <<clients, database, unit>>

\* Mutant of InitCmd: save_state is called whether or not the file exists.
InitCmdAlways ==
    /\ pc = "idle"
    /\ cmd' = [name |-> "init", arg |-> None]
    /\ pc' = "done"
    /\ state' = Stamped(state, clock)
    /\ file' = Some(state')
    /\ clock' = clock + 1
    /\ UNCHANGED <<backend, tables, changes, table_order, table_name_to_resource,
                   idx, log, state0, file0>>
    /\ UNCHANGED <<clients, database, unit>>

InitCmd ==
    /\ pc = "idle"
    /\ cmd' = [name |-> "init", arg |-> None]
    /\ pc' = "done"
    /\ IF file = None
       THEN /\ state' = Stamped(state, clock)
            /\ file' = Some(state')
            /\ clock' = clock + 1
       ELSE UNCHANGED <<state, file, clock>>
    /\ UNCHANGED <<backend, tables, changes, table_order, table_name_to_resource,
                   idx, log, state0, file0>>
    /\ UNCHANGED <<clients, database, unit>>

Next ==
    \/ StartApply
    \/ ApplyUpdate
    \/ ApplyCreate
    \/ ApplyDelete
    \/ \E i \in 1..Len(RIDs) : DestroyOne(RIDs[i])
    \/ StartDestroyAll
    \/ DestroyStep
    \/ PlanCmd
    \/ InitCmd

Spec == Init /\ [][Next]_vars

(***************************************************************************)
(* _compare_tables called on its own                                       *)
(***************************************************************************)
\* At most MaxItems columns, and at most MaxItems foreign keys, in a table
\* handed to _compare_tables.
MaxItems == 2

\* No command runs: the variables of the reconciler are at rest.
AtRest ==
    /\ backend = "pg"
    /\ state = EmptyState
    /\ file = None
    /\ clock = 1
    /\ cmd = [name |-> "none", arg |-> None]
    /\ changes = <<>>
    /\ table_order = <<>>
    /\ table_name_to_resource = <<>>
    /\ idx = 1
    /\ log = <<>>
    /\ state0 = EmptyState
    /\ file0 = None

SeqsUpTo(S, n) == UNION {[1..k -> S] : k \in 0..n}

\* Columns a, b, c; a comes in four versions that differ in one of type,
\* nullable and default, b in two.
DiffColumns ==
    {Column("a", "INT", FALSE, None), Column("a", "TEXT", FALSE, None),
     Column("a", "INT", TRUE, None), Column("a", "INT", FALSE, Some("0")),
     Column("b", "INT", FALSE, None), Column("b", "TEXT", FALSE, None),
     Column("c", "INT", FALSE, None)}

ForeignKey(columns, reference_table, reference_columns, on_delete, on_update) ==
    [columns |-> columns, reference_table |-> reference_table,
     reference_columns |-> reference_columns, on_delete |-> on_delete,
     on_update |-> on_update]

\* Foreign keys on the column tuples (a), (b) and (a, b); the key on (a)
\* comes in five versions that differ in one of the four other fields.
DiffForeignKeys ==
    {ForeignKey(<<"a">>, "X", <<"id">>, NoAction, NoAction),
     ForeignKey(<<"a">>, "Y", <<"id">>, NoAction, NoAction),
     ForeignKey(<<"a">>, "X", <<"uid">>, NoAction, NoAction),
     ForeignKey(<<"a">>, "X", <<"id">>, "CASCADE", NoAction),
     ForeignKey(<<"a">>, "X", <<"id">>, NoAction, "CASCADE"),
     ForeignKey(<<"b">>, "X", <<"id">>, NoAction, NoAction),
     ForeignKey(<<"a", "b">>, "X", <<"id", "k">>, NoAction, NoAction)}

DiffTable(columns, primary_key, foreign_keys) ==
    [resource_id |-> "r1", name |-> "A", conn |-> Conn("pg"), columns |-> columns,
     primary_key |-> primary_key, foreign_keys |-> foreign_keys]

\* The tables handed to _compare_tables: any columns; any of three primary
\* keys; foreign keys absent, empty or not.
DiffTables ==
    {DiffTable(cols, <<"a">>, None) : cols \in SeqsUpTo(DiffColumns, MaxItems)}
    \cup {DiffTable(<<Column("a", "INT", FALSE, None), Column("b", "INT", FALSE, None)>>,
                    pk, None) : pk \in {<<"a">>, <<"a", "b">>, <<"b", "a">>}}
    \cup {DiffTable(<<Column("a", "INT", FALSE, None), Column("b", "INT", FALSE, None)>>,
                    <<"a">>, fks) :
             fks \in {None} \cup {Some(l) : l \in SeqsUpTo(DiffForeignKeys, MaxItems)}}

DiffInit ==
    /\ AtRest
    /\ tables = <<>>
    /\ pc = "diff"
    /\ clients = <<>>
    /\ database = None
    /\ dependency_graph = None
    /\ old_table \in DiffTables
    /\ new_table \in DiffTables
    /\ delta = None
    /\ args = None
    /\ result = None

\* changes = self._compare_tables(old_table, new_table)
Compare ==
    /\ pc = "diff"
    /\ delta' = Some(CompareTables(old_table, new_table))
    /\ pc' = "done"
    /\ UNCHANGED <<clients, database, backend, tables, state, file, clock, cmd, changes, table_order,
                   table_name_to_resource, idx, log, state0, file0,
                   dependency_graph, old_table, new_table, call>>

DiffNext == Compare

DiffSpec == DiffInit /\ [][DiffNext]_vars

(***************************************************************************)
(* _build_dependency_graph and _topological_sort called on their own       *)
(***************************************************************************)
\* At most MaxRefs foreign keys in a table of the desired set.
MaxRefs == 2

\* The authored foreign_keys of resource i: a list of at most MaxRefs keys,
\* each referencing any of the names (its own and names outside the desired
\* set included); the first resource may also author none.
RefChoices(i) ==
    {Some(l) : l \in SeqsUpTo({FkTo(ref) : ref \in NameSet}, MaxRefs)}
    \cup (IF i = 1 THEN {None} ELSE {})

\* The desired set of the resources r1..rn with the names nm and the
\* foreign keys fk.
GraphConfig(n, nm, fk) ==
    [i \in 1..n |-> Entry(RIDs[i], NewTable(RIDs[i], nm[i], "pg", fk[i]))]

GraphInit ==
    /\ AtRest
    /\ \E n \in 0..Len(Names) :
          \E nm \in [1..n -> NameSet] :
             \E fk \in [1..n -> RefChoices(1)] :
                /\ \A i \in 1..n : nm[i] \in NameChoices(i) /\ fk[i] \in RefChoices(i)
                /\ tables = GraphConfig(n, nm, fk)
    /\ pc = "graph"
    /\ clients = <<>>
    /\ database = None
    /\ dependency_graph = None
    /\ old_table = None
    /\ new_table = None
    /\ delta = None
    /\ args = None
    /\ result = None

\* dependency_graph = self._build_dependency_graph()
BuildGraph ==
    /\ pc = "graph"
    /\ dependency_graph' = Some(BuildDependencyGraph(tables))
    /\ pc' = "sort"
    /\ UNCHANGED <<clients, database, backend, tables, state, file, clock, cmd, changes, table_order,
                   table_name_to_resource, idx, log, state0, file0,
                   old_table, new_table, delta, call>>

\* table_order = self._topological_sort(dependency_graph)
SortGraph ==
    /\ pc = "sort"
    /\ table_order' = TopologicalSort(dependency_graph[1])
    /\ pc' = "done"
    /\ UNCHANGED <<clients, database, backend, tables, state, file, clock, cmd, changes,
                   table_name_to_resource, idx, log, state0, file0, unit>>

GraphNext ==
    \/ BuildGraph
    \/ SortGraph

GraphSpec == GraphInit /\ [][GraphNext]_vars

(***************************************************************************)
(* Properties                                                              *)
(***************************************************************************)
Done == pc = "done"

ApplyDone == pc = "done" /\ cmd.name = "apply"

DestroyDone == pc = "done" /\ cmd.name = "destroy"

AllOk == \A i \in 1..Len(log) : log[i].res = "ok"

\* The plan a following run computes: it loads the state file.
FollowingPlan == Plan(tables, LoadState(file))

IdsOf(st) == KeySet(st.resources)

OkIds(op) == {log[i].rid : i \in {j \in 1..Len(log) : log[j].op = op /\ log[j].res = "ok"}}

\* save_state() was called in this run.
Committed == clock > 1 /\ file # None /\ file[1].last_updated = Some(clock - 1)

\* C1: after an apply in which every adapter operation succeeded, a
\* following plan of the same desired set is empty.
C1_IdempotentApply == (ApplyDone /\ AllOk) => FollowingPlan = <<>>

\* C2: after apply, every resource whose alter or create returned success
\* is recorded, and its recorded descriptor parsed back into a Table diffs
\* empty against the desired Table.
C2_MonotoneState ==
    ApplyDone =>
        \A i \in 1..Len(log) :
            (log[i].op \in {"alter", "create"} /\ log[i].res = "ok") =>
                LET st == LoadState(file)
                    rid == log[i].rid
                IN  /\ Has(st.resources, rid)
                    /\ Has(state.resources, rid)
                    /\ Get(state.resources, rid) = Get(st.resources, rid)
                    /\ DOMAIN CompareTables(TableFromDict(rid, Get(st.resources, rid)),
                                            Get(tables, rid)) = {}

\* C2 witness: an apply is over in which an alter and a create succeeded,
\* one of them for a table authored with an empty foreign_keys list.
C2_Witness ==
    /\ ApplyDone
    /\ \E i, j \in 1..Len(log) :
          /\ log[i].op = "alter" /\ log[i].res = "ok"
          /\ log[j].op = "create" /\ log[j].res = "ok"
          /\ Get(tables, log[j].rid).foreign_keys = Some(<<>>)

\* C3: a resource whose adapter operation failed (or whose connection
\* could not be opened) has, in memory and in the state file, the entry it
\* had before the run.
C3_UnchangedOnFailure ==
    \A i \in 1..Len(log) :
        log[i].res # "ok" =>
            /\ GetResource(state, log[i].rid) = GetResource(state0, log[i].rid)
            /\ GetResource(LoadState(file), log[i].rid) = GetResource(state0, log[i].rid)

\* C3 witness: a run is over in which the operation of a recorded resource
\* failed while the state document changed for another resource.
C3_Witness ==
    /\ Done
    /\ state.resources # state0.resources
    /\ \E i \in 1..Len(log) :
          log[i].res # "ok" /\ GetResource(state0, log[i].rid) # None

\* C4: in an apply run in which an adapter operation failed, every planned
\* Create and Update is still attempted.
C4_FailureIsolation ==
    (ApplyDone /\ ~AllOk) =>
        \A c \in 1..Len(changes) :
            changes[c].v.action \in {"create", "update"} =>
                \E i \in 1..Len(log) :
                    /\ log[i].rid = changes[c].k
                    /\ log[i].op = IF changes[c].v.action = "create" THEN "create" ELSE "alter"

\* C5: every apply or destroy run that attempted an adapter operation ends
\* with a commit of the state, whatever the outcomes.
C5_CommitAlways ==
    (Done /\ cmd.name \in {"apply", "destroy"} /\ log # <<>>) => Committed

\* C6: after an apply or destroy run, the resource ids of the state file are
\* the ids recorded before the run, plus the ids whose create succeeded,
\* minus the ids whose drop succeeded.
C6_StateDurability ==
    (Done /\ cmd.name \in {"apply", "destroy"}) =>
        /\ IdsOf(LoadState(file)) = (IdsOf(state0) \cup OkIds("create")) \ OkIds("drop")
        /\ IdsOf(state) = IdsOf(LoadState(file))

\* C6 witness: a run is over in which a create succeeded, a drop succeeded
\* and another operation failed.
C6_Witness ==
    /\ Done
    /\ OkIds("create") # {}
    /\ OkIds("drop") # {}
    /\ ~AllOk

OpRank(op) == CASE op = "alter" -> 1 [] op = "create" -> 2 [] op = "drop" -> 3

\* C7: in an apply run no operation of an earlier phase is issued after an
\* operation of a later phase: alters, then creates, then drops.
C7_PhaseOrdering ==
    cmd.name = "apply" =>
        \A i, j \in 1..Len(log) : i < j => OpRank(log[i].op) <= OpRank(log[j].op)

\* C7 witness: an apply run issued an alter, a create and a drop.
C7_Witness ==
    /\ ApplyDone
    /\ {log[i].op : i \in 1..Len(log)} = {"alter", "create", "drop"}

\* The edges of the dependency graph, as pairs <<A, B>>: A depends on B.
Edges(graph) == UNION {{<<graph[i].k, n>> : n \in Range(graph[i].v)} : i \in 1..Len(graph)}

RECURSIVE Closure(_, _, _, _)
Closure(nodes, edges, reach, n) ==
    IF n = 0 THEN reach
    ELSE Closure(nodes, edges,
                 reach \cup {x \in nodes \X nodes :
                                \E m \in nodes : <<x[1], m>> \in reach /\ <<m, x[2]>> \in edges},
                 n - 1)

Acyclic(graph) ==
    \A n \in KeySet(graph) :
        <<n, n>> \notin Closure(KeySet(graph), Edges(graph), Edges(graph), Len(graph))

\* Position in the log of the operation op on table name, 0 when none.
LogPos(op, name) ==
    IF \E i \in 1..Len(log) : log[i].op = op /\ log[i].name = name
    THEN CHOOSE i \in 1..Len(log) :
            /\ log[i].op = op /\ log[i].name = name
            /\ \A j \in 1..Len(log) : (log[j].op = op /\ log[j].name = name) => i <= j
    ELSE 0

\* C8: for an acyclic desired set and every foreign-key edge A -> B between
\* table names that are both planned as Create, apply issues the create of
\* B before the create of A.
C8_CreateOrder ==
    ApplyDone =>
        LET graph == BuildDependencyGraph(tables)
            create_actions == ActionsOf(changes, "create")
        IN  Acyclic(graph) =>
                \A e \in Edges(graph) :
                    (Has(create_actions, e[1]) /\ Has(create_actions, e[2])) =>
                        /\ LogPos("create", e[2]) > 0
                        /\ LogPos("create", e[2]) < LogPos("create", e[1])

\* C8 witness: a chain A -> B -> C of three tables, authored dependents
\* first, has been created in one apply.
C8_Witness ==
    /\ ApplyDone
    /\ Acyclic(BuildDependencyGraph(tables))
    /\ Len(tables) = 3
    /\ <<tables[1].v.name, tables[2].v.name>> \in Edges(BuildDependencyGraph(tables))
    /\ <<tables[2].v.name, tables[3].v.name>> \in Edges(BuildDependencyGraph(tables))
    /\ \A i \in 1..3 : LogPos("create", tables[i].v.name) > 0

\* C9: in the delete phase of apply, on both backends, for every edge
\* A -> B of an acyclic dependency graph, when A and B are both dropped in
\* the run the drop of A is issued before the drop of B.
C9_DeleteOrder ==
    cmd.name = "apply" =>
        LET graph == BuildDependencyGraph(tables)
        IN  Acyclic(graph) =>
                \A e \in Edges(graph) :
                    (LogPos("drop", e[1]) > 0 /\ LogPos("drop", e[2]) > 0) =>
                        LogPos("drop", e[1]) < LogPos("drop", e[2])

\* C10: for every Delete of the plan, apply attempts the drop of the
\* recorded table name exactly once, and a successful drop removes the
\* resource id from the state.
C10_DeletesExecuted ==
    ApplyDone =>
        \A c \in 1..Len(changes) :
            changes[c].v.action = "delete" =>
                LET drops == {i \in 1..Len(log) :
                                 /\ log[i].op = "drop"
                                 /\ log[i].rid = changes[c].k
                                 /\ log[i].name = changes[c].v.table_name}
                IN  /\ Cardinality(drops) = 1
                    /\ \A i \in drops :
                          log[i].res = "ok" => ~Has(LoadState(file).resources, changes[c].k)

PlanDone == pc = "done" /\ cmd.name = "plan"

Actions(chs) == {chs[i].v.action : i \in 1..Len(chs)}

\* The delta of a desired resource that is recorded.
DeltaOf(resource_id) ==
    CompareTables(TableFromDict(resource_id, Get(state.resources, resource_id)),
                  Get(tables, resource_id))

PlanPos(resource_id) ==
    IF Has(changes, resource_id)
    THEN CHOOSE i \in 1..Len(changes) : changes[i].k = resource_id
    ELSE 0

\* Desired resource a has a foreign key that references the table of
\* desired resource b.
References(a, b) ==
    \E i \in 1..Len(OrEmpty(Get(tables, a).foreign_keys)) :
        OrEmpty(Get(tables, a).foreign_keys)[i].reference_table = Get(tables, b).name

\* C12: in the plan of an acyclic desired set, for every foreign-key edge
\* A -> B between two desired resources that both have a record, the record
\* of B precedes the record of A.
C12_PlanInExecutionOrder ==
    (PlanDone /\ Acyclic(BuildDependencyGraph(tables))) =>
        \A a, b \in KeySet(tables) :
            (References(a, b) /\ PlanPos(a) > 0 /\ PlanPos(b) > 0) =>
                PlanPos(b) < PlanPos(a)

\* The resource ids whose entry differs between two state documents.
ChangedIds(a, b) ==
    {rid \in IdsOf(a) \cup IdsOf(b) : GetResource(a, rid) # GetResource(b, rid)}

\* C13: a plan step issues no adapter operation and leaves the state
\* document and the state file as they are; the recorded resources change
\* only in a step of apply or destroy that issued a successful adapter
\* operation, and only for the resource of that operation.
C13_PlanHasNoEffect ==
    [][/\ cmd'.name = "plan" => (state' = state /\ file' = file /\ log' = log)
       /\ ChangedIds(state, state') # {} =>
             /\ cmd'.name \in {"apply", "destroy"}
             /\ Len(log') = Len(log) + 1
             /\ log'[Len(log')].res = "ok"
             /\ ChangedIds(state, state') = {log'[Len(log')].rid}
       /\ ChangedIds(LoadState(file), LoadState(file')) # {} =>
             /\ cmd'.name \in {"apply", "destroy"}
             /\ ChangedIds(LoadState(file), LoadState(file')) \subseteq
                   {log'[i].rid : i \in {j \in 1..Len(log') : log'[j].res = "ok"}}
      ]_vars

\* C13 witness: a plan of a recorded state is over and holds changes, with
\* the state document and the state file as they were.
C13_Witness ==
    /\ PlanDone
    /\ changes # <<>>
    /\ state0.resources # <<>>
    /\ state = state0
    /\ file = file0

\* _compare_tables has returned.
Compared == delta # None

\* changes.get(field, [])
FieldOr(d, field) == IF field \in DOMAIN d THEN d[field] ELSE <<>>

\* Every field of a delta is a non-empty list (or the primary-key pair).
NoEmptyField(d) == \A f \in DOMAIN d : d[f] # <<>>

Unique(s) == \A i, j \in 1..Len(s) : s[i] = s[j] => i = j

ColumnNames(t) == [i \in 1..Len(t.columns) |-> t.columns[i].name]

FkTuples(t) ==
    [i \in 1..Len(OrEmpty(t.foreign_keys)) |-> OrEmpty(t.foreign_keys)[i].columns]

\* C14: the diff of a table against itself has no field.
C14_ReflexiveDiff ==
    (Compared /\ old_table = new_table) => DOMAIN delta[1] = {}

\* C14 witness: a table with two columns of one name, and one with two
\* foreign keys, has been compared with itself.
C14_Witness ==
    /\ Compared
    /\ old_table = new_table
    /\ \/ Len(old_table.columns) = 2 /\ ~Unique(ColumnNames(old_table))
       \/ Len(OrEmpty(old_table.foreign_keys)) = 2

\* The column of table t named name.
ColumnNamed(t, name) ==
    t.columns[CHOOSE i \in 1..Len(t.columns) : t.columns[i].name = name]

\* C15: for tables with unique column names, add_columns is the columns of
\* new whose name is not in old, remove_columns the columns of old whose name
\* is not in new, modify_columns the pairs (old_col, new_col) of one name
\* that differ in type, nullable or default, and modify_primary_key is
\* present, as the pair (old.pk, new.pk), iff the primary keys differ.
C15_DiffOfColumns ==
    (Compared /\ Unique(ColumnNames(old_table)) /\ Unique(ColumnNames(new_table))) =>
        LET d == delta[1]
            old_names == Range(ColumnNames(old_table))
            new_names == Range(ColumnNames(new_table))
            modified == SelectSeq(new_table.columns,
                            LAMBDA c : /\ c.name \in old_names
                                       /\ \/ c.type # ColumnNamed(old_table, c.name).type
                                          \/ c.nullable # ColumnNamed(old_table, c.name).nullable
                                          \/ c.default # ColumnNamed(old_table, c.name).default)
        IN  /\ NoEmptyField(d)
            /\ FieldOr(d, "add_columns") =
                  SelectSeq(new_table.columns, LAMBDA c : c.name \notin old_names)
            /\ FieldOr(d, "remove_columns") =
                  SelectSeq(old_table.columns, LAMBDA c : c.name \notin new_names)
            /\ FieldOr(d, "modify_columns") =
                  [i \in 1..Len(modified) |->
                      <<ColumnNamed(old_table, modified[i].name), modified[i]>>]
            /\ "modify_primary_key" \in DOMAIN d
                  <=> old_table.primary_key # new_table.primary_key
            /\ "modify_primary_key" \in DOMAIN d =>
                  d.modify_primary_key = <<old_table.primary_key, new_table.primary_key>>

\* C15 witness: one delta with an added, a removed and a modified column
\* and a modified primary key.
C15_Witness ==
    /\ Compared
    /\ Unique(ColumnNames(old_table))
    /\ Unique(ColumnNames(new_table))
    /\ {"add_columns", "remove_columns", "modify_columns", "modify_primary_key"}
          \subseteq DOMAIN delta[1]

\* The fields of a foreign key other than its columns differ.
FkDiffers(a, b) ==
    \/ a.reference_table # b.reference_table
    \/ a.reference_columns # b.reference_columns
    \/ a.on_delete # b.on_delete
    \/ a.on_update # b.on_update

IndexOf(s, x) == CHOOSE i \in 1..Len(s) : s[i] = x

\* The entries of list come in the order in which they appear in s.
InOrderOf(list, s) ==
    \A i, j \in 1..Len(list) : i < j => IndexOf(s, list[i]) < IndexOf(s, list[j])

\* C17: for tables with unique column names and distinct foreign-key
\* tuples, add_columns, modify_columns and add_foreign_keys list their
\* entries in the order of new, remove_columns and remove_foreign_keys in
\* the order of old.
C17_OrderStable ==
    (/\ Compared
     /\ Unique(ColumnNames(old_table)) /\ Unique(ColumnNames(new_table))
     /\ Unique(FkTuples(old_table)) /\ Unique(FkTuples(new_table))) =>
        LET d == delta[1]
            modify_columns == FieldOr(d, "modify_columns")
        IN  /\ InOrderOf(FieldOr(d, "add_columns"), new_table.columns)
            /\ InOrderOf([i \in 1..Len(modify_columns) |-> modify_columns[i][2]],
                         new_table.columns)
            /\ InOrderOf(FieldOr(d, "remove_columns"), old_table.columns)
            /\ InOrderOf(FieldOr(d, "add_foreign_keys"), OrEmpty(new_table.foreign_keys))
            /\ InOrderOf(FieldOr(d, "remove_foreign_keys"), OrEmpty(old_table.foreign_keys))

\* The table names of the desired set.
DesiredNames == {tables[i].v.name : i \in 1..Len(tables)}

\* Some desired table named a has a foreign key whose reference_table is b.
HasReference(a, b) ==
    \E i \in 1..Len(tables) :
        /\ tables[i].v.name = a
        /\ \E j \in 1..Len(OrEmpty(tables[i].v.foreign_keys)) :
              OrEmpty(tables[i].v.foreign_keys)[j].reference_table = b

\* C18: the dependency graph has one node per table name of the desired
\* set, and an edge A -> B iff a table named A has a foreign key whose
\* reference_table is B and B is a table name of the desired set.
C18_DependencyGraph ==
    dependency_graph # None =>
        LET graph == dependency_graph[1]
        IN  /\ Unique(Keys(graph))
            /\ KeySet(graph) = DesiredNames
            /\ \A a, b \in NameSet :
                  <<a, b>> \in Edges(graph) <=> (HasReference(a, b) /\ b \in DesiredNames)

\* C18 witness: a graph was built of a desired set in which a table
\* references a table of the set and a table outside of it.
C18_Witness ==
    /\ dependency_graph # None
    /\ \E a \in DesiredNames :
          /\ \E b \in DesiredNames \ {a} : HasReference(a, b)
          /\ \E b \in NameSet \ DesiredNames : HasReference(a, b)

\* C19: the topological sort of every dependency graph, with cycles,
\* self-references or duplicate edges, returns every node of the graph
\* exactly once.
C19_CycleNonCrash ==
    (pc = "done" /\ dependency_graph # None) =>
        /\ Unique(table_order)
        /\ Range(table_order) = KeySet(dependency_graph[1])

\* C19 witness: a graph with the cycle A -> B -> A, a self-reference and a
\* duplicate edge has been sorted.
C19_Witness ==
    /\ pc = "done"
    /\ dependency_graph # None
    /\ LET graph == dependency_graph[1]
       IN  /\ \E a, b \in KeySet(graph) :
                 a # b /\ <<a, b>> \in Edges(graph) /\ <<b, a>> \in Edges(graph)
           /\ \E a \in KeySet(graph) : <<a, a>> \in Edges(graph)
           /\ \E a \in KeySet(graph) : ~Unique(Get(graph, a))

\* The resource dropped by log entry i was recorded, before the run, with a
\* foreign key that references the table dropped by log entry j.
DroppedReferences(i, j) ==
    LET fks == OrEmpty(TableFromDict(log[i].rid,
                                     Get(state0.resources, log[i].rid)).foreign_keys)
    IN  \E k \in 1..Len(fks) : fks[k].reference_table = log[j].name

\* C20: in a destroy of all resources of an acyclic desired set, on both
\* backends, a table that references another dropped table is dropped
\* before it.
C20_DestroyAllOrder ==
    (cmd.name = "destroy" /\ cmd.arg = None /\ Acyclic(BuildDependencyGraph(tables))) =>
        \A i, j \in 1..Len(log) : DroppedReferences(i, j) => i < j

(***************************************************************************)
(* _resolve_vars called on its own                                         *)
(***************************************************************************)
\* At most MaxLen characters in the first connection field.
MaxLen == 5

\* The characters of a connection field: those of a placeholder, and two
\* letters.
Chars == {"$", "{", "}", "A", "B"}

Letters == {"A", "B"}

\* The names of the environment variables that may be defined, and their
\* values: a text, or a text that itself reads as a placeholder.
EnvNames == {<<"A">>, <<"A", "B">>}

EnvValues == {<<"B", "B">>, Placeholder(<<"B">>)}

\* os.environ: each name is not defined, or defined with one of the values.
Environs ==
    UNION {[names -> EnvValues] : names \in SUBSET EnvNames}

\* The second connection field: a text, the placeholder of each name, and
\* a placeholder inside a text.
KeyValues ==
    {<<"B">>, <<"A">> \o Placeholder(<<"A">>) \o <<"B">>}
    \cup {Placeholder(n) : n \in EnvNames}

ResolveInit ==
    /\ AtRest
    /\ tables = <<>>
    /\ pc = "resolve"
    /\ clients = <<>>
    /\ database = None
    /\ dependency_graph = None
    /\ old_table = None
    /\ new_table = None
    /\ delta = None
    /\ \E url \in SeqsUpTo(Chars, MaxLen), key \in KeyValues, environ \in Environs :
          args = [url |-> url, key |-> key, environ |-> environ]
    /\ result = None

\* url, key = self._resolve_vars(url, key)
Resolve ==
    /\ pc = "resolve"
    /\ result' = Some(ResolveVars(args.url, args.key, args.environ))
    /\ pc' = "done"
    /\ UNCHANGED <<clients, database, backend, tables, state, file, clock, cmd, changes, table_order,
                   table_name_to_resource, idx, log, state0, file0,
                   dependency_graph, old_table, new_table, delta, args>>

ResolveNext == Resolve

ResolveSpec == ResolveInit /\ [][ResolveNext]_vars

(***************************************************************************)
(* _load_config                                                            *)
(***************************************************************************)
\* resource.get('type') of the resources a backend loads.
ResourceType(b) == IF b = "pg" THEN "supabase_table" ELSE "mysql_table"

\* The keys read with data[...]: a missing one raises KeyError.
TableKeys == {"name", "columns", "primary_key"}

ColumnKeys == {"name", "type", "nullable"}

ForeignKeyKeys == {"columns", "reference_table", "reference_columns"}

\* Table.from_dict(resource_id, data) raises KeyError: a key of the table,
\* a connection field, a key of a column or a key of a foreign key is
\* missing.
RaisesKeyError(b, data) ==
    \/ ~(TableKeys \subseteq DOMAIN data)
    \/ ~(DOMAIN Conn(b) \subseteq DOMAIN data.conn)
    \/ \E i \in 1..Len(data.columns) : ~(ColumnKeys \subseteq DOMAIN data.columns[i])
    \/ /\ "foreign_keys" \in DOMAIN data
       /\ \E i \in 1..Len(data.foreign_keys) :
             ~(ForeignKeyKeys \subseteq DOMAIN data.foreign_keys[i])

\* Mutant of LoadResource: a resource id that is already loaded is kept.
LoadResourceFirstWins(tbls, b, resource_id, resource) ==
    IF "type" \in DOMAIN resource /\ resource.type = ResourceType(b)
    THEN IF RaisesKeyError(b, resource) \/ Has(tbls, resource_id)
         THEN tbls
         ELSE Put(tbls, resource_id, TableFromDict(resource_id, resource))
    ELSE tbls

\* One iteration of the loop over config['resources'].items().
LoadResource(tbls, b, resource_id, resource) ==
    IF "type" \in DOMAIN resource /\ resource.type = ResourceType(b)
    THEN IF RaisesKeyError(b, resource)
         THEN tbls
         ELSE Put(tbls, resource_id, TableFromDict(resource_id, resource))
    ELSE tbls

RECURSIVE LoadResources(_, _, _, _)
LoadResources(tbls, b, resources, i) ==
    IF i > Len(resources) THEN tbls
    ELSE LoadResources(LoadResource(tbls, b, resources[i].k, resources[i].v),
                       b, resources, i + 1)

\* _load_config(file_path) for a file whose content is config: None when
\* the document is empty or has no 'resources', else its resources.
LoadConfig(tbls, b, config) ==
    IF config = None THEN tbls ELSE LoadResources(tbls, b, config[1], 1)

(***************************************************************************)
(* The construction of the reconciler on its own                           *)
(***************************************************************************)
\* At most MaxResources resources in the configuration files together.
MaxResources == 2

\* dict without one key
Without(data, key) == [k \in DOMAIN data \ {key} |-> data[k]]

\* dict with the key foreign_keys
WithForeignKeys(data, fks) == data @@ [foreign_keys |-> fks]

ColumnDict(name, nullable) == [name |-> name, type |-> "UUID", nullable |-> nullable]

ForeignKeyDict(columns, reference_columns) ==
    [columns |-> columns, reference_table |-> "B", reference_columns |-> reference_columns]

\* A descriptor with every required key: columns id and ref, primary key
\* id as a list, no foreign_keys.
Descriptor(b, name) ==
    [type |-> ResourceType(b), name |-> name, conn |-> Conn(b),
     columns |-> <<ColumnDict("id", FALSE), ColumnDict("ref", TRUE)>>,
     primary_key |-> ListValue(<<"id">>)]

\* Descriptors with every required key that respect the data model: the
\* one-or-many fields as lists and as bare strings.
GoodDescriptors(b) ==
    {Descriptor(b, "A"),
     [Descriptor(b, "A") EXCEPT !.primary_key = StrValue("id")],
     WithForeignKeys(Descriptor(b, "B"),
                     <<ForeignKeyDict(ListValue(<<"ref">>), ListValue(<<"id">>))>>),
     WithForeignKeys(Descriptor(b, "B"),
                     <<ForeignKeyDict(StrValue("ref"), StrValue("id"))>>)}

\* Descriptors of another type or of none.
OtherDescriptors(b) ==
    {Without(Descriptor(b, "A"), "type"),
     [Descriptor(b, "A") EXCEPT !.type = ResourceType(IF b = "pg" THEN "my" ELSE "pg")]}

\* Descriptors with a required key missing: of the table, of the
\* connection, of a column, of a foreign key.
PartialDescriptors(b) ==
    {Without(Descriptor(b, "A"), key) : key \in TableKeys}
    \cup {[Descriptor(b, "A") EXCEPT !.conn = Without(Conn(b), "password")],
          [Descriptor(b, "A") EXCEPT !.conn = Without(Conn(b), "url")],
          [Descriptor(b, "A") EXCEPT
              !.columns = <<ColumnDict("id", FALSE), Without(ColumnDict("ref", TRUE), "nullable")>>],
          WithForeignKeys(Descriptor(b, "A"),
                          <<Without(ForeignKeyDict(ListValue(<<"ref">>), ListValue(<<"id">>)),
                                    "reference_table")>>)}

\* Descriptors with every required key that do not respect the data
\* model: two columns of one name, a primary key and a foreign key on a
\* column that does not exist, more reference columns than columns.
BadDescriptors(b) ==
    {[Descriptor(b, "A") EXCEPT
         !.columns = <<ColumnDict("id", FALSE), ColumnDict("id", TRUE)>>],
     [Descriptor(b, "A") EXCEPT !.primary_key = ListValue(<<"uid">>)],
     WithForeignKeys(Descriptor(b, "A"),
                     <<ForeignKeyDict(ListValue(<<"b_id">>), ListValue(<<"id">>))>>),
     WithForeignKeys(Descriptor(b, "A"),
                     <<ForeignKeyDict(ListValue(<<"ref">>), ListValue(<<"id", "id">>))>>)}

\* The entries of config['resources']: r1 with any of the descriptors, r2
\* with a complete one and with one without name.
Resources(b) ==
    {Entry("r1", data) : data \in GoodDescriptors(b) \cup OtherDescriptors(b)
                                 \cup PartialDescriptors(b) \cup BadDescriptors(b)}
    \cup {Entry("r2", Descriptor(b, "A")), Entry("r2", Without(Descriptor(b, "A"), "name"))}

\* The files made of the entries items: a new file starts at the first
\* entry and at every entry i with cut[i].
RECURSIVE Split(_, _, _)
Split(items, cut, i) ==
    IF i > Len(items) THEN <<>>
    ELSE LET rest == Split(items, cut, i + 1)
         IN  IF rest = <<>> \/ cut[i + 1]
             THEN <<Some(<<items[i]>>)>> \o rest
             ELSE <<Some(<<items[i]>> \o rest[1][1])>> \o Tail(rest)

\* files with a file that has no 'resources' before file p; files itself
\* when p = 0.
WithInvalidFile(files, p) ==
    IF p = 0 THEN files
    ELSE SubSeq(files, 1, p - 1) \o <<None>> \o SubSeq(files, p, Len(files))

\* The keys of a YAML mapping are unique.
UniqueKeys(files) ==
    \A f \in 1..Len(files) :
       files[f] # None => Cardinality(KeySet(files[f][1])) = Len(files[f][1])

\* No command runs: the variables of a run are at rest.
Idle ==
    /\ state = EmptyState
    /\ file = None
    /\ clock = 1
    /\ cmd = [name |-> "none", arg |-> None]
    /\ changes = <<>>
    /\ table_order = <<>>
    /\ table_name_to_resource = <<>>
    /\ idx = 1
    /\ log = <<>>
    /\ state0 = EmptyState
    /\ file0 = None
    /\ clients = <<>>
    /\ database = None
    /\ dependency_graph = None
    /\ old_table = None
    /\ new_table = None
    /\ delta = None
    /\ result = None

\* self.tables = {}; args holds the content of the configuration files in
\* the order they are loaded.
LoaderInit ==
    /\ Idle
    /\ backend \in {"pg", "my"}
    /\ tables = <<>>
    /\ pc = "load"
    /\ \E n \in 0..MaxResources :
          \E items \in [1..n -> Resources(backend)] :
             \E cut \in [1..n + 1 -> BOOLEAN] :
                \E p \in 0..n + 1 :
                   /\ cut[1] /\ cut[n + 1]
                   /\ p <= Len(Split(items, cut, 1)) + 1
                   /\ UniqueKeys(Split(items, cut, 1))
                   /\ args = WithInvalidFile(Split(items, cut, 1), p)

\* self._load_config(file_path) for the file at idx.
LoadConfigFile ==
    /\ pc = "load"
    /\ idx <= Len(args)
    /\ tables' = LoadConfig(tables, backend, args[idx])
    /\ idx' = idx + 1
    /\ UNCHANGED <<clients, database, backend, state, file, clock, pc, cmd, changes, table_order,
                   table_name_to_resource, log, state0, file0,
                   dependency_graph, old_table, new_table, delta, call>>

\* The loop over the files is over.
LoadDone ==
    /\ pc = "load"
    /\ idx > Len(args)
    /\ pc' = "done"
    /\ UNCHANGED <<clients, database, backend, tables, state, file, clock, cmd, changes, table_order,
                   table_name_to_resource, idx, log, state0, file0, unit>>

LoaderNext ==
    \/ LoadConfigFile
    \/ LoadDone

LoaderSpec == LoaderInit /\ [][LoaderNext]_vars

(***************************************************************************)
(* alter_table                                                             *)
(***************************************************************************)
\* One SQL statement: what it does (kind), the column or the parts of the
\* constraint name it is about (name), and the column definition, the
\* primary-key columns or the foreign key it carries.
Statement(kind, name, column, columns, fk) ==
    [kind |-> kind, name |-> name, column |-> column, columns |-> columns, fk |-> fk]

AddColumnStatements(table_changes) ==
    LET cols == FieldOr(table_changes, "add_columns")
    IN  [i \in 1..Len(cols) |->
            Statement("ADD COLUMN", <<cols[i].name>>, Some(cols[i]), <<>>, None)]

\* Postgres-REST: one statement for each of type, nullable and default
\* that differs between the old and the new column.
ModifyColumnPg(old_col, new_col) ==
    (IF old_col.type # new_col.type
     THEN <<Statement("ALTER COLUMN TYPE", <<new_col.name>>, Some(new_col), <<>>, None)>>
     ELSE <<>>)
    \o (IF old_col.nullable # new_col.nullable
        THEN <<Statement(IF new_col.nullable THEN "ALTER COLUMN DROP NOT NULL"
                                             ELSE "ALTER COLUMN SET NOT NULL",
                         <<new_col.name>>, Some(new_col), <<>>, None)>>
        ELSE <<>>)
    \o (IF old_col.default # new_col.default
        THEN <<Statement(IF new_col.default = None THEN "ALTER COLUMN DROP DEFAULT"
                                                   ELSE "ALTER COLUMN SET DEFAULT",
                         <<new_col.name>>, Some(new_col), <<>>, None)>>
        ELSE <<>>)

\* MySQL: one statement with the whole definition of the new column.
ModifyColumnMy(old_col, new_col) ==
    <<Statement("MODIFY COLUMN", <<new_col.name>>, Some(new_col), <<>>, None)>>

RECURSIVE ModifyColumnStatements(_, _, _)
ModifyColumnStatements(b, pairs, i) ==
    IF i > Len(pairs) THEN <<>>
    ELSE (IF b = "pg" THEN ModifyColumnPg(pairs[i][1], pairs[i][2])
                      ELSE ModifyColumnMy(pairs[i][1], pairs[i][2]))
         \o ModifyColumnStatements(b, pairs, i + 1)

DropColumnStatements(table_changes) ==
    LET cols == FieldOr(table_changes, "remove_columns")
    IN  [i \in 1..Len(cols) |->
            Statement("DROP COLUMN", <<cols[i].name>>, None, <<>>, None)]

\* DROP CONSTRAINT IF EXISTS "<table>_pkey" on Postgres-REST, DROP PRIMARY
\* KEY on MySQL; then ADD PRIMARY KEY with the new columns.
PrimaryKeyStatements(b, table_name, table_changes) ==
    IF "modify_primary_key" \in DOMAIN table_changes
    THEN <<Statement(IF b = "pg" THEN "DROP CONSTRAINT IF EXISTS" ELSE "DROP PRIMARY KEY",
                     IF b = "pg" THEN <<table_name, "pkey">> ELSE <<>>, None, <<>>, None),
           Statement("ADD PRIMARY KEY", <<>>, None, table_changes.modify_primary_key[2], None)>>
    ELSE <<>>

\* "<table>_<first column>_fkey"
ConstraintName(table_name, fk) == <<table_name, fk.columns[1], "fkey">>

AddForeignKeyStatements(table_name, table_changes) ==
    LET fks == FieldOr(table_changes, "add_foreign_keys")
    IN  [i \in 1..Len(fks) |->
            Statement("ADD CONSTRAINT FOREIGN KEY", ConstraintName(table_name, fks[i]),
                      None, <<>>, Some(fks[i]))]

DropForeignKeyStatements(b, table_name, table_changes) ==
    LET fks == FieldOr(table_changes, "remove_foreign_keys")
    IN  [i \in 1..Len(fks) |->
            Statement(IF b = "pg" THEN "DROP CONSTRAINT IF EXISTS" ELSE "DROP FOREIGN KEY",
                      ConstraintName(table_name, fks[i]), None, <<>>, None)]

\* Mutant of AlterStatements: the foreign keys are dropped before the new
\* ones are added.
AlterStatementsDropFirst(b, table_name, table_changes) ==
    AddColumnStatements(table_changes)
    \o ModifyColumnStatements(b, FieldOr(table_changes, "modify_columns"), 1)
    \o DropColumnStatements(table_changes)
    \o PrimaryKeyStatements(b, table_name, table_changes)
    \o DropForeignKeyStatements(b, table_name, table_changes)
    \o AddForeignKeyStatements(table_name, table_changes)

\* The statements alter_table executes when none fails, in order.
AlterStatements(b, table_name, table_changes) ==
    AddColumnStatements(table_changes)
    \o ModifyColumnStatements(b, FieldOr(table_changes, "modify_columns"), 1)
    \o DropColumnStatements(table_changes)
    \o PrimaryKeyStatements(b, table_name, table_changes)
    \o AddForeignKeyStatements(table_name, table_changes)
    \o DropForeignKeyStatements(b, table_name, table_changes)

\* Mutant of AlterTable: the statements after the failing one are executed
\* as well.
AlterTableContinue(b, table_name, table_changes, failing) ==
    LET statements == AlterStatements(b, table_name, table_changes)
    IN  [issued |-> statements,
         effective |-> SelectSeq(statements, LAMBDA st : failing = 0 \/ st # statements[failing]),
         success |-> failing = 0,
         commit |-> b = "my" /\ failing = 0]

\* alter_table when statement number failing fails (0: none fails).
\* Postgres-REST: success = success and self._execute_sql(sql) executes
\* nothing after the first failure.  MySQL: cursor.execute raises, the
\* handler returns False and commit() is not reached.  issued: the
\* statements sent to the database, the failing one included; effective:
\* those that have taken effect when alter_table returns (each statement is
\* a request of its own on Postgres-REST and a DDL statement, which MySQL
\* commits implicitly, on MySQL; neither handler rolls anything back).
AlterTable(b, table_name, table_changes, failing) ==
    LET statements == AlterStatements(b, table_name, table_changes)
    IN  [issued |-> IF failing = 0 THEN statements ELSE SubSeq(statements, 1, failing),
         effective |-> IF failing = 0 THEN statements
                       ELSE SubSeq(statements, 1, failing - 1),
         success |-> failing = 0,
         commit |-> b = "my" /\ failing = 0]

(***************************************************************************)
(* alter_table called on its own                                           *)
(***************************************************************************)
\* The columns of the tables altered: a in three versions (the second
\* differs from the first in type, nullable and default, the third in type
\* only), b, c and d.
AlterColumns ==
    {<<Column("a", "INT", FALSE, None)>>,
     <<Column("a", "INT", FALSE, None), Column("b", "INT", FALSE, None)>>,
     <<Column("a", "BIGINT", TRUE, Some("0")), Column("c", "TEXT", TRUE, None)>>,
     <<Column("a", "BIGINT", FALSE, None), Column("b", "INT", FALSE, None),
       Column("c", "TEXT", TRUE, None)>>,
     <<Column("a", "BIGINT", TRUE, Some("0")), Column("c", "TEXT", TRUE, None),
       Column("d", "INT", TRUE, Some("1"))>>}

AlterPrimaryKeys == {<<"a">>, <<"a", "b">>}

\* Their foreign keys: none, or keys on a (two versions), b and c.
AlterForeignKeys ==
    {None,
     Some(<<>>),
     Some(<<ForeignKey(<<"a">>, "X", <<"id">>, NoAction, NoAction)>>),
     Some(<<ForeignKey(<<"a">>, "X", <<"id">>, "CASCADE", NoAction),
            ForeignKey(<<"b">>, "X", <<"id">>, NoAction, NoAction)>>),
     Some(<<ForeignKey(<<"b">>, "X", <<"id">>, NoAction, NoAction),
            ForeignKey(<<"c">>, "Y", <<"id">>, NoAction, "CASCADE")>>)}

AlterTables ==
    {DiffTable(cols, pk, fks) :
        cols \in AlterColumns, pk \in AlterPrimaryKeys, fks \in AlterForeignKeys}

\* apply has planned an Update of new_table, recorded as old_table, with
\* the delta changes, and is about to call client.alter_table.
AlterInit ==
    /\ state = EmptyState
    /\ file = None
    /\ clock = 1
    /\ cmd = [name |-> "none", arg |-> None]
    /\ changes = <<>>
    /\ table_order = <<>>
    /\ table_name_to_resource = <<>>
    /\ idx = 1
    /\ log = <<>>
    /\ state0 = EmptyState
    /\ file0 = None
    /\ backend \in {"pg", "my"}
    /\ tables = <<>>
    /\ pc = "alter"
    /\ clients = <<>>
    /\ database = None
    /\ dependency_graph = None
    /\ old_table \in AlterTables
    /\ new_table \in AlterTables
    /\ delta = Some(CompareTables(old_table, new_table))
    /\ DOMAIN delta[1] # {}
    /\ args = None
    /\ result = None

\* client.alter_table(table, table_changes), with any statement failing or
\* none.
Alter ==
    /\ pc = "alter"
    /\ \E failing \in 0..Len(AlterStatements(backend, new_table.name, delta[1])) :
          result' = Some(AlterTable(backend, new_table.name, delta[1], failing))
    /\ pc' = "done"
    /\ UNCHANGED <<clients, database, backend, tables, state, file, clock, cmd, changes, table_order,
                   table_name_to_resource, idx, log, state0, file0,
                   dependency_graph, old_table, new_table, delta, args>>

AlterNext == Alter

AlterSpec == AlterInit /\ [][AlterNext]_vars

DestroyAllDone == pc = "done" /\ cmd.name = "destroy" /\ cmd.arg = None

DestroyOneDone == pc = "done" /\ cmd.name = "destroy" /\ cmd.arg # None

\* C21: a destroy of all resources attempts a drop for every resource
\* recorded before the run, desired or not, and when every drop succeeded
\* the committed state has no resource left.
C21_DestroyAllCoverage ==
    DestroyAllDone =>
        /\ \A rid \in IdsOf(state0) :
              \E i \in 1..Len(log) : log[i].op = "drop" /\ log[i].rid = rid
        /\ AllOk => LoadState(file).resources = <<>>

\* C22: destroy of one resource id: when the id is recorded, exactly one
\* drop is attempted, of the recorded table name; when it succeeded, the
\* state is the state before the run without that id, and it is committed;
\* when the id is not recorded, no drop is attempted and the state and the
\* file are as before.
C22_DestroyOne ==
    DestroyOneDone =>
        LET resource_id == cmd.arg[1]
        IN  IF Has(state0.resources, resource_id)
            THEN /\ Len(log) = 1
                 /\ log[1].op = "drop"
                 /\ log[1].rid = resource_id
                 /\ log[1].name = Get(state0.resources, resource_id).name
                 /\ log[1].res = "ok" =>
                       /\ state.resources = Del(state0.resources, resource_id)
                       /\ Committed
                       /\ file = Some(state)
            ELSE /\ log = <<>>
                 /\ state = state0
                 /\ file = file0

\* C22 witness: one of two recorded resources has been destroyed.
C22_Witness ==
    /\ DestroyOneDone
    /\ Len(state0.resources) = 2
    /\ Len(state.resources) = 1
    /\ AllOk

Resolved == pc = "done" /\ result # None

\* ident is an identifier: letters only, at least one.
IsIdentifier(ident) ==
    Len(ident) >= 1 /\ \A i \in 1..Len(ident) : ident[i] \in Letters

\* v is exactly ${IDENT}.
IsPlaceholder(v) ==
    /\ Len(v) >= 3
    /\ v[1] = "$"
    /\ v[2] = "{"
    /\ v[Len(v)] = "}"
    /\ IsIdentifier(SubSeq(v, 3, Len(v) - 1))

\* What the resolver is to return for the value v.
Substituted(v, environ) ==
    LET ident == SubSeq(v, 3, Len(v) - 1)
    IN  IF IsPlaceholder(v) /\ ident \in DOMAIN environ THEN environ[ident] ELSE v

\* C23: for any value of a connection field and any environment, the
\* resolver returns the value of the variable IDENT when the field is
\* exactly ${IDENT} and IDENT is defined, the field itself when IDENT is not
\* defined, and the field unchanged when it is anything else (a placeholder
\* with a prefix or a suffix included); each of the two fields is resolved
\* on its own.
C23_VariableResolver ==
    Resolved =>
        result[1] = <<Substituted(args.url, args.environ),
                      Substituted(args.key, args.environ)>>

\* C23 witness: the first field is a placeholder of a defined variable and
\* is replaced by its value; the second is a placeholder inside a text and
\* is returned as it is.
C23_Witness ==
    /\ Resolved
    /\ args.url = Placeholder(<<"A">>)
    /\ <<"A">> \in DOMAIN args.environ
    /\ result[1][1] = args.environ[<<"A">>]
    /\ args.key = <<"A">> \o Placeholder(<<"A">>) \o <<"B">>
    /\ result[1][2] = args.key

\* v is the placeholder of a variable that is defined.
Unresolved(v) == \E ident \in DOMAIN Environ : v = Placeholder(ident)

\* C24: in apply and destroy, on both backends, no connection field handed
\* to the adapter is the placeholder of a variable that is defined in the
\* environment.
C24_ResolvedAtApplyTime ==
    \A i \in 1..Len(log) :
       \A field \in DOMAIN log[i].conn : ~Unresolved(log[i].conn[field])

Loaded == pc = "done" /\ args # None /\ result = None

\* The entries of all the files, in the order they are loaded.
RECURSIVE Flattened(_, _)
Flattened(files, f) ==
    IF f > Len(files) THEN <<>>
    ELSE (IF files[f] = None THEN <<>> ELSE files[f][1]) \o Flattened(files, f + 1)

\* The descriptor is of the type of the backend and has every required
\* key.
Accepted(b, data) ==
    /\ "type" \in DOMAIN data
    /\ data.type = ResourceType(b)
    /\ {"name", "conn", "columns", "primary_key"} \subseteq DOMAIN data
    /\ DOMAIN data.conn = DOMAIN Conn(b)
    /\ \A i \in 1..Len(data.columns) :
          {"name", "type", "nullable"} \subseteq DOMAIN data.columns[i]
    /\ "foreign_keys" \in DOMAIN data =>
          \A i \in 1..Len(data.foreign_keys) :
             {"columns", "reference_table", "reference_columns"}
                \subseteq DOMAIN data.foreign_keys[i]

\* The positions of the accepted entries of resource_id.
AcceptedAt(resource_id) ==
    {i \in 1..Len(Flattened(args, 1)) :
        /\ Flattened(args, 1)[i].k = resource_id
        /\ Accepted(backend, Flattened(args, 1)[i].v)}

Last(S) == CHOOSE i \in S : \A j \in S : j <= i

\* The descriptor self.tables[resource_id] was loaded from.
Source(resource_id) == Flattened(args, 1)[Last(AcceptedAt(resource_id))].v

\* The data-model invariants of a table.
WellFormed(t) ==
    /\ Unique(ColumnNames(t))
    /\ \A i \in 1..Len(t.primary_key) : t.primary_key[i] \in Range(ColumnNames(t))
    /\ \A i \in 1..Len(OrEmpty(t.foreign_keys)) :
          LET fk == OrEmpty(t.foreign_keys)[i]
          IN  /\ \A j \in 1..Len(fk.columns) : fk.columns[j] \in Range(ColumnNames(t))
              /\ Len(fk.reference_columns) = Len(fk.columns)

\* C25: every table of the loaded configuration has unique column names,
\* a primary key and foreign keys on existing columns, and as many
\* reference columns as columns in every foreign key.
C25_LoaderInvariants ==
    Loaded => \A i \in 1..Len(tables) : WellFormed(tables[i].v)

\* C26: the loaded configuration holds exactly the resource ids that have
\* an entry of the type of the backend with every required key, each with
\* the table of its last such entry in loading order; entries with a
\* missing key, of another type, and files without resources change
\* nothing else.
C26_LoaderResultSet ==
    Loaded =>
        /\ KeySet(tables) = {id \in Range(RIDs) : AcceptedAt(id) # {}}
        /\ Len(tables) = Cardinality(KeySet(tables))
        /\ \A i \in 1..Len(tables) :
              tables[i].v = TableFromDict(tables[i].k, Source(tables[i].k))

\* C26 witness: two files give r1 in full, with table A in the first and
\* table B in the second: r1 is loaded once, from the second file.
C26_Witness ==
    /\ Loaded
    /\ Len(args) = 2
    /\ args[1] = Some(<<Entry("r1", Descriptor(backend, "A"))>>)
    /\ args[2] # None
    /\ args[2][1][1].k = "r1"
    /\ Accepted(backend, args[2][1][1].v)
    /\ Len(tables) = 1
    /\ Get(tables, "r1").name = "B"

\* The descriptor with every one-or-many field written as a list.
AsList(v) == IF v.many THEN v ELSE ListValue(<<v.str>>)

ForeignKeysAsLists(fks) ==
    [i \in 1..Len(fks) |->
        [fks[i] EXCEPT !.columns = AsList(@), !.reference_columns = AsList(@)]]

WithLists(data) ==
    IF "foreign_keys" \in DOMAIN data
    THEN [data EXCEPT !.primary_key = AsList(@),
                      !.foreign_keys = ForeignKeysAsLists(@)]
    ELSE [data EXCEPT !.primary_key = AsList(@)]

\* A one-or-many field of the descriptor is a bare string.
HasBareString(data) ==
    \/ ~data.primary_key.many
    \/ /\ "foreign_keys" \in DOMAIN data
       /\ \E i \in 1..Len(data.foreign_keys) :
             ~data.foreign_keys[i].columns.many \/ ~data.foreign_keys[i].reference_columns.many

\* C27: a table loaded from a descriptor that gives primary_key, the
\* columns or the reference_columns of a foreign key as a bare string is
\* the table of the same descriptor with one-element lists, and the two
\* diff empty in both directions.
C27_OneOrMany ==
    Loaded =>
        \A i \in 1..Len(tables) :
           LET other == TableFromDict(tables[i].k, WithLists(Source(tables[i].k)))
           IN  /\ tables[i].v = other
               /\ DOMAIN CompareTables(tables[i].v, other) = {}
               /\ DOMAIN CompareTables(other, tables[i].v) = {}

\* C27 witness: a table has been loaded from a descriptor with a bare
\* primary key, another from one with bare foreign-key columns.
C27_Witness ==
    /\ Loaded
    /\ \E i \in 1..Len(tables) :
          /\ HasBareString(Source(tables[i].k))
          /\ "foreign_keys" \in DOMAIN Source(tables[i].k)
          /\ tables[i].v.foreign_keys[1][1].columns = <<"ref">>
          /\ tables[i].v.primary_key = <<"id">>

\* C28: when the state file does not exist or is malformed, the program
\* does not abort, the state it loads has no resource, and a plan that
\* follows holds one Create for every desired resource and nothing else.
C28_StateLoadNeverAborts ==
    (file0 = None \/ IsMalformed(file0)) =>
        /\ pc # "aborted"
        /\ state0.resources = <<>>
        /\ PlanDone =>
              /\ KeySet(changes) = KeySet(tables)
              /\ Actions(changes) \subseteq {"create"}

InitDone == pc = "done" /\ cmd.name = "init"

\* C29: a run of init writes the empty state document when the state file
\* does not exist and leaves an existing state file as it is, whatever it
\* records; hence any number of init runs after an apply keep every
\* recorded resource.
C29_InitDoesNotClobber ==
    [][cmd'.name = "init" =>
          IF file = None
          THEN /\ file' # None
               /\ ~IsMalformed(file')
               /\ file'[1].resources = <<>>
          ELSE file' = file]_vars

\* C29 witness: init has run on a state file that records two resources,
\* and the file is as before.
C29_Witness ==
    /\ InitDone
    /\ file0 # None
    /\ ~IsMalformed(file0)
    /\ Len(file0[1].resources) = 2
    /\ file = file0

Altered == pc = "done" /\ delta # None /\ result # None

\* The group of the alter order a statement belongs to: 1 add columns,
\* 2 modify columns, 3 drop columns, 4 primary key, 5 add foreign keys,
\* 6 drop foreign keys.
GroupOf(statement) ==
    CASE statement.kind = "ADD COLUMN" -> 1
      [] statement.kind \in {"ALTER COLUMN TYPE", "ALTER COLUMN SET NOT NULL",
                             "ALTER COLUMN DROP NOT NULL", "ALTER COLUMN SET DEFAULT",
                             "ALTER COLUMN DROP DEFAULT", "MODIFY COLUMN"} -> 2
      [] statement.kind = "DROP COLUMN" -> 3
      [] statement.kind \in {"DROP PRIMARY KEY", "ADD PRIMARY KEY"} -> 4
      [] statement.kind = "ADD CONSTRAINT FOREIGN KEY" -> 5
      [] statement.kind = "DROP FOREIGN KEY" -> 6
      [] statement.kind = "DROP CONSTRAINT IF EXISTS" ->
            IF statement.name[Len(statement.name)] = "pkey" THEN 4 ELSE 6

InGroup(statements, group) == SelectSeq(statements, LAMBDA st : GroupOf(st) = group)

\* C30: on both backends the statements of an alter are issued group by
\* group in the order add columns, modify columns, drop columns, primary
\* key (drop, then add), add foreign keys, drop foreign keys: no statement
\* of a later group precedes one of an earlier group; when no statement
\* fails, every column added, every column removed, the primary key and
\* every foreign key added and removed has its own statement, and every
\* modified column at least one.
C30_AlterStatementOrder ==
    Altered =>
        LET issued == result[1].issued
            table_changes == delta[1]
        IN  /\ \A i, j \in 1..Len(issued) : i < j => GroupOf(issued[i]) <= GroupOf(issued[j])
            /\ \A i, j \in 1..Len(issued) :
                  (i < j /\ GroupOf(issued[i]) = 4 /\ GroupOf(issued[j]) = 4) =>
                     issued[i].kind # "ADD PRIMARY KEY" /\ issued[j].kind = "ADD PRIMARY KEY"
            /\ result[1].success =>
                  /\ Len(InGroup(issued, 1)) = Len(FieldOr(table_changes, "add_columns"))
                  /\ Len(InGroup(issued, 2)) >= Len(FieldOr(table_changes, "modify_columns"))
                  /\ Len(InGroup(issued, 3)) = Len(FieldOr(table_changes, "remove_columns"))
                  /\ Len(InGroup(issued, 4)) =
                        (IF "modify_primary_key" \in DOMAIN table_changes THEN 2 ELSE 0)
                  /\ Len(InGroup(issued, 5)) = Len(FieldOr(table_changes, "add_foreign_keys"))
                  /\ Len(InGroup(issued, 6)) = Len(FieldOr(table_changes, "remove_foreign_keys"))

\* C30 witness: an alter whose delta has all six fields has issued all its
\* statements, at least one of each group.
C30_Witness ==
    /\ Altered
    /\ result[1].success
    /\ DOMAIN delta[1] = {"add_columns", "modify_columns", "remove_columns",
                          "modify_primary_key", "add_foreign_keys", "remove_foreign_keys"}
    /\ \A group \in 1..6 : InGroup(result[1].issued, group) # <<>>

\* The log positions of the operation op of resource_id.
Attempts(op, resource_id) ==
    {i \in 1..Len(log) : log[i].op = op /\ log[i].rid = resource_id}

\* C35: in an apply, the create of every planned Create and the alter of
\* every planned Update is attempted exactly once, also when two desired
\* resource ids carry one table name.
C35_EveryChangeAttempted ==
    ApplyDone =>
        \A c \in 1..Len(changes) :
            /\ changes[c].v.action = "create" =>
                  Cardinality(Attempts("create", changes[c].k)) = 1
            /\ changes[c].v.action = "update" =>
                  Cardinality(Attempts("alter", changes[c].k)) = 1

\* C38: in an apply, when a planned Update adds a foreign key to a table
\* that is planned as Create in the same run, the create of that table is
\* issued before the alter.
C38_ReferencedTableFirst ==
    ApplyDone =>
        \A u, c \in 1..Len(changes) :
            (/\ changes[u].v.action = "update"
             /\ changes[c].v.action = "create"
             /\ \E k \in 1..Len(FieldOr(changes[u].v.changes, "add_foreign_keys")) :
                   FieldOr(changes[u].v.changes, "add_foreign_keys")[k].reference_table
                      = changes[c].v.table.name) =>
                \A i \in Attempts("alter", changes[u].k) :
                    \E j \in Attempts("create", changes[c].k) : j < i

\* C33: the table handed to a create or an alter is the desired table as
\* loaded, and after a successful create or alter the entry recorded for
\* the resource, in memory and in the state file, holds the connection
\* fields as authored: a placeholder stays a placeholder, whatever the
\* adapter was given.
C33_ResolverPurity ==
    cmd.name = "apply" =>
        \A i \in 1..Len(log) :
            log[i].op \in {"create", "alter"} =>
                /\ Get(changes, log[i].rid).table = Get(tables, log[i].rid)
                /\ log[i].res = "ok" =>
                      /\ Get(state.resources, log[i].rid).conn = Get(tables, log[i].rid).conn
                      /\ Done =>
                            Get(LoadState(file).resources, log[i].rid).conn
                               = Get(tables, log[i].rid).conn

\* C33 witness: on Postgres-REST a create was given the resolved url and
\* the state file records the placeholder.
C33_Witness ==
    /\ ApplyDone
    /\ \E i \in 1..Len(log) :
          /\ log[i].op = "create" /\ log[i].res = "ok"
          /\ log[i].conn.url = Environ[<<"U", "R", "L">>]
          /\ Get(LoadState(file).resources, log[i].rid).conn.url = Placeholder(<<"U", "R", "L">>)

\* The table names recorded in a state document.
TableNames(st) == {st.resources[i].v.name : i \in 1..Len(st.resources)}

\* The tables present in the database after the operations of l from i
\* on, when db were present before: a successful CREATE TABLE IF NOT EXISTS
\* makes the table present, a successful DROP TABLE IF EXISTS makes it
\* absent.
RECURSIVE DatabaseAfter(_, _, _)
DatabaseAfter(db, l, i) ==
    IF i > Len(l) THEN db
    ELSE DatabaseAfter(CASE l[i].res = "ok" /\ l[i].op = "create" -> db \cup {l[i].name}
                         [] l[i].res = "ok" /\ l[i].op = "drop" -> db \ {l[i].name}
                         [] OTHER -> db,
                       l, i + 1)

\* C36: after an apply in which every adapter operation succeeded, run on
\* a database that holds the tables recorded before the run, the table of
\* every resource recorded in the state file is present in the database.
C36_StateAgreesWithDatabase ==
    (ApplyDone /\ AllOk) =>
        TableNames(LoadState(file)) \subseteq DatabaseAfter(TableNames(state0), log, 1)

(***************************************************************************)
(* ConnSpec: apply and destroy of the MySQL backend, one client call       *)
(* (connect, the operation, close) per step                                *)
(***************************************************************************)
\* A MySQLClient built for resource_id.  connection is "open" after a
\* connect() that returned True, "none" after one that returned False
\* (self.connection stays None), "closed" after close().
Client(resource_id, conn, connection) ==
    [rid |-> resource_id, conn |-> conn, connection |-> connection]

\* Mutant of Close: the connection is left as it is.
CloseNothing(client) == client

\* client.close()
Close(client) ==
    IF client.connection = "open" THEN [client EXCEPT !.connection = "closed"]
    ELSE client

\* The positions of a run at which a client is built and used.
ClientPositions == {"update", "create", "delete", "destroy", "destroy_one"}

\* The last client built holds an open connection.
Connected == clients # <<>> /\ clients[Len(clients)].connection = "open"

\* The operation of the loop iteration (or of destroy(resource_id)) the
\* run is at.
Pending ==
    CASE pc = "update" ->
           LET e == Get(ActionsOf(changes, "update"), table_order[idx])
           IN  [op |-> "alter", name |-> e[2].table.name, rid |-> e[1],
                conn |-> e[2].table.conn]
      [] pc = "create" ->
           LET e == Get(ActionsOf(changes, "create"), table_order[idx])
           IN  [op |-> "create", name |-> e[2].table.name, rid |-> e[1],
                conn |-> e[2].table.conn]
      [] pc = "delete" ->
           LET table_name == DeleteOrder(backend, table_order)[idx]
               resource_id == Get(ActionsOf(changes, "delete"), table_name)[1]
           IN  [op |-> "drop", name |-> table_name, rid |-> resource_id,
                conn |-> GetResource(state, resource_id)[1].conn]
      [] pc = "destroy" ->
           LET resource_id == Get(table_name_to_resource, table_order[idx])
           IN  [op |-> "drop", name |-> table_order[idx], rid |-> resource_id,
                conn |-> GetResource(state, resource_id)[1].conn]
      [] pc = "destroy_one" ->
           [op |-> "drop", name |-> GetResource(state, cmd.arg[1])[1].name,
            rid |-> cmd.arg[1], conn |-> GetResource(state, cmd.arg[1])[1].conn]

\* The state after the pending operation returned res.
AfterPending(st, res) ==
    CASE pc = "update" ->
           AfterAlter(st, Pending.rid,
                      Get(ActionsOf(changes, "update"), table_order[idx])[2].table, res)
      [] pc = "create" ->
           AfterCreate(st, Pending.rid,
                       Get(ActionsOf(changes, "create"), table_order[idx])[2].table, res)
      [] OTHER -> AfterDrop(st, Pending.rid, res)

\* On to the next loop iteration that has an operation, or to the end of
\* the run: continue after a failed connect(), the end of the loop body
\* after close().
Advance ==
    CASE pc \in {"update", "create", "delete"} ->
           Continue(state, Seek(backend, changes, table_order, pc, idx + 1))
      [] pc = "destroy" ->
           ContinueDestroy(state, SeekDestroy(table_order, table_name_to_resource,
                                              state, idx + 1))
      [] pc = "destroy_one" ->
           /\ pc' = "done"
           /\ UNCHANGED <<state, file, clock, idx>>

\* destroy(resource_id) up to the construction of the client.
DestroyOneLookup(resource_id) ==
    /\ pc = "idle"
    /\ cmd' = [name |-> "destroy", arg |-> Some(resource_id)]
    /\ pc' = IF GetResource(state, resource_id) = None THEN "done" ELSE "destroy_one"
    /\ UNCHANGED <<backend, tables, state, file, clock, changes, table_order,
                   table_name_to_resource, idx, log, state0, file0>>
    /\ UNCHANGED <<clients, database, unit>>

\* client = MySQLClient(...); client.connect(): on False the iteration is
\* over (continue, or return in destroy(resource_id)).
Connect ==
    /\ pc \in ClientPositions
    /\ ~Connected
    /\ result = None
    /\ \E res \in {"ok"} \cup (Outcomes(backend, log) \cap {"noconn"}) :
          IF res = "ok"
          THEN /\ clients' = Append(clients, Client(Pending.rid, Pending.conn, "open"))
               /\ UNCHANGED <<state, file, clock, pc, idx, log>>
          ELSE /\ clients' = Append(clients, Client(Pending.rid, Pending.conn, "none"))
               /\ log' = Append(log, Op(Pending.op, Pending.name, Pending.rid,
                                        ClientConn(backend, Pending.conn), res))
               /\ Advance
    /\ UNCHANGED <<backend, tables, cmd, changes, table_order,
                   table_name_to_resource, state0, file0>>
    /\ UNCHANGED <<database, unit>>

\* client.alter_table / create_table / drop_table and the update of the
\* state that follows it; destroy(resource_id) also saves the state here.
Operate ==
    /\ pc \in ClientPositions
    /\ Connected
    /\ result = None
    /\ \E res \in Outcomes(backend, log) \ {"noconn"} :
          /\ log' = Append(log, Op(Pending.op, Pending.name, Pending.rid,
                                   ClientConn(backend, Pending.conn), res))
          /\ result' = Some(res)
          /\ IF pc = "destroy_one" /\ res = "ok"
             THEN /\ state' = Stamped(AfterPending(state, res), clock)
                  /\ file' = Some(state')
                  /\ clock' = clock + 1
             ELSE /\ state' = AfterPending(state, res)
                  /\ UNCHANGED <<file, clock>>
    /\ UNCHANGED <<backend, tables, pc, cmd, changes, table_order,
                   table_name_to_resource, idx, clients, database, state0, file0>>
    /\ UNCHANGED <<dependency_graph, old_table, new_table, delta, args>>

\* client.close(), the last statement of the loop body.
CloseClient ==
    /\ pc \in ClientPositions
    /\ result # None
    /\ clients' = [clients EXCEPT ![Len(clients)] = Close(@)]
    /\ result' = None
    /\ Advance
    /\ UNCHANGED <<backend, tables, cmd, changes, table_order,
                   table_name_to_resource, log, database, state0, file0>>
    /\ UNCHANGED <<dependency_graph, old_table, new_table, delta, args>>

ConnInit == Init /\ backend = "my"

ConnNext ==
    \/ StartApply
    \/ StartDestroyAll
    \/ \E i \in 1..Len(RIDs) : DestroyOneLookup(RIDs[i])
    \/ Connect
    \/ Operate
    \/ CloseClient

ConnSpec == ConnInit /\ [][ConnNext]_vars

\* The clients that hold an open connection.
Open == {i \in 1..Len(clients) : clients[i].connection = "open"}

\* C31: on MySQL at most one connection is open at any time; an open
\* connection belongs to the client of the resource being processed, so it
\* was closed when the next client is built; no connection is open when the
\* run has ended, whether the operations succeeded or failed.
C31_ScopedConnections ==
    /\ Cardinality(Open) <= 1
    /\ \A i \in Open : i = Len(clients) /\ pc \in ClientPositions
    /\ pc = "done" => Open = {}

\* An ended apply that built two clients, one of whose operations failed.
C31_Witness ==
    /\ ApplyDone
    /\ Len(clients) >= 2
    /\ \A i \in 1..Len(clients) : clients[i].connection = "closed"
    /\ \E i \in 1..Len(log) : log[i].res = "fail"

IsPrefix(s, t) == Len(s) <= Len(t) /\ s = SubSeq(t, 1, Len(s))

\* C34: on both backends an alter reports success exactly when every
\* statement it issued took effect; when it reports failure, the failed
\* statement is the last one issued (nothing of the alter is issued after
\* it), and the statements issued before it have taken effect and stay in
\* effect.
C34_AlterStopsAtFirstFailure ==
    Altered =>
        LET statements == AlterStatements(backend, new_table.name, delta[1])
            issued == result[1].issued
            effective == result[1].effective
        IN  /\ IsPrefix(issued, statements)
            /\ IsPrefix(effective, issued)
            /\ result[1].success <=> effective = issued
            /\ result[1].success => issued = statements
            /\ ~result[1].success => Len(issued) = Len(effective) + 1

\* C34 witness: an alter failed at a statement that is neither its first
\* nor its last.
C34_Witness ==
    /\ Altered
    /\ ~result[1].success
    /\ Len(result[1].effective) >= 1
    /\ Len(result[1].issued) < Len(AlterStatements(backend, new_table.name, delta[1]))

\* The named foreign-key constraints a table carries (constraint name ->
\* foreign key) when each of its foreign keys is held under the name the
\* adapter gives it.
NamedConstraints(table) ==
    DictOf([i \in 1..Len(OrEmpty(table.foreign_keys)) |->
               Entry(ConstraintName(table.name, OrEmpty(table.foreign_keys)[i]),
                     OrEmpty(table.foreign_keys)[i])])

\* The named foreign-key constraints after the statements from i on took
\* effect on constraints: ADD CONSTRAINT puts the foreign key under its
\* name, DROP CONSTRAINT IF EXISTS / DROP FOREIGN KEY removes the name.
RECURSIVE ConstraintsAfter(_, _, _)
ConstraintsAfter(constraints, statements, i) ==
    IF i > Len(statements) THEN constraints
    ELSE ConstraintsAfter(
            CASE statements[i].kind = "ADD CONSTRAINT FOREIGN KEY" ->
                   Put(constraints, statements[i].name, statements[i].fk[1])
              [] statements[i].kind \in {"DROP CONSTRAINT IF EXISTS", "DROP FOREIGN KEY"} ->
                   Del(constraints, statements[i].name)
              [] OTHER -> constraints,
            statements, i + 1)

\* C37: after an alter that reported success and whose delta replaces a
\* foreign key (the same owning columns in add_foreign_keys and in
\* remove_foreign_keys), the table carries the new foreign key under the
\* constraint name <table>_<first column>_fkey.
C37_ForeignKeyReplaced ==
    (Altered /\ result[1].success) =>
        LET add == FieldOr(delta[1], "add_foreign_keys")
            remove == FieldOr(delta[1], "remove_foreign_keys")
            constraints == ConstraintsAfter(NamedConstraints(old_table),
                                            result[1].effective, 1)
        IN  \A i \in 1..Len(add), j \in 1..Len(remove) :
               add[i].columns = remove[j].columns =>
                  /\ Has(constraints, ConstraintName(new_table.name, add[i]))
                  /\ Get(constraints, ConstraintName(new_table.name, add[i])) = add[i]

\* The pairs <<A, B>> of nodes of graph with a path of one edge or more
\* from A to B.
Reach(graph) == Closure(KeySet(graph), Edges(graph), Edges(graph), Len(graph))

\* C39: for every dependency graph, with or without cycles, and every edge
\* A -> B that lies on no cycle (B does not reach A), the topological sort
\* emits B before A.
C39_OrderOutsideCycles ==
    (pc = "done" /\ dependency_graph # None) =>
        LET graph == dependency_graph[1]
        IN  \A e \in Edges(graph) :
               <<e[2], e[1]>> \notin Reach(graph) =>
                  IndexOf(table_order, e[2]) < IndexOf(table_order, e[1])

\* C39 witness: a graph with a cycle between two nodes, and an edge that
\* lies on no cycle from a third node into the cycle, has been sorted.
C39_Witness ==
    /\ pc = "done"
    /\ dependency_graph # None
    /\ LET graph == dependency_graph[1]
       IN  \E a, b, c \in KeySet(graph) :
              /\ <<b, c>> \in Edges(graph) /\ <<c, b>> \in Edges(graph) /\ b # c
              /\ <<a, b>> \in Edges(graph)
              /\ <<b, a>> \notin Reach(graph)

(***************************************************************************)
(* RenameSpec: one run of a command on a state file that may record a      *)
(* desired resource under another table name or another connection         *)
(***************************************************************************)
\* Another table name than name.
OtherName(name) == IF name = Names[1] THEN Names[2] ELSE Names[1]

\* Other connection fields than those authored.
OtherConn(b) ==
    IF b = "pg"
    THEN [Conn(b) EXCEPT !.url = <<"o", "l", "d">>]
    ELSE [Conn(b) EXCEPT !.host = <<"o", "l", "d">>]

\* What the state file may record for resource i: as in Recorded, and for
\* a desired resource also the desired table under another name or with
\* another connection.
RenameRecorded(b, tbls, i) ==
    Recorded(b, tbls, i)
    \cup (IF Has(tbls, RIDs[i])
          THEN {Some([TableToDict(Get(tbls, RIDs[i])) EXCEPT
                         !.name = OtherName(Get(tbls, RIDs[i]).name)]),
                Some([TableToDict(Get(tbls, RIDs[i])) EXCEPT !.conn = OtherConn(b)])}
          ELSE {})

RenameFiles(b, tbls) ==
    {Some([resources |-> ResourcesOf(<<e1, e2, e3, e4>>), last_updated |-> Some(0)]) :
        e1 \in RenameRecorded(b, tbls, 1), e2 \in RenameRecorded(b, tbls, 2),
        e3 \in RenameRecorded(b, tbls, 3), e4 \in RenameRecorded(b, tbls, 4)}

\* The desired sets of RenameSpec: those whose tables author no foreign
\* key.
RenameConfigs(b) ==
    {tbls \in Configs(b) : \A i \in 1..Len(tbls) : tbls[i].v.foreign_keys = None}

RenameInit ==
    /\ backend \in {"pg", "my"}
    /\ tables \in RenameConfigs(backend)
    /\ file \in {f \in RenameFiles(backend, tables) :
                    Len(LoadState(f).resources) <= MaxRecorded}
    /\ state = LoadState(file)
    /\ clock = 1
    /\ pc = "idle"
    /\ cmd = [name |-> "none", arg |-> None]
    /\ changes = <<>>
    /\ table_order = <<>>
    /\ table_name_to_resource = <<>>
    /\ idx = 1
    /\ log = <<>>
    /\ state0 = state
    /\ file0 = file
    /\ clients = <<>>
    /\ database = None
    /\ dependency_graph = None
    /\ old_table = None
    /\ new_table = None
    /\ delta = None
    /\ args = None
    /\ result = None

RenameSpec == RenameInit /\ [][Next]_vars

\* The desired descriptor of resource_id and the one recorded at the start
\* of the run differ, and differ in the table name or in the connection
\* fields only.
NameOrConnOnly(resource_id) ==
    /\ Has(tables, resource_id)
    /\ GetResource(state0, resource_id) # None
    /\ LET recorded == GetResource(state0, resource_id)[1]
           desired == TableToDict(Get(tables, resource_id))
       IN  /\ recorded # desired
           /\ [recorded EXCEPT !.name = desired.name, !.conn = desired.conn] = desired

\* C40: when the recorded and the desired descriptor of a resource differ
\* only in the table name or in the connection fields, plan emits no change
\* for the resource, and apply leaves its entry as it was, in the state
\* document throughout the run and in the state file at its end.
C40_NameAndConnOutsideDiff ==
    \A i \in 1..Len(RIDs) :
        (NameOrConnOnly(RIDs[i]) /\ cmd.name \in {"plan", "apply"}) =>
            /\ ~Has(changes, RIDs[i])
            /\ GetResource(state, RIDs[i]) = GetResource(state0, RIDs[i])
            /\ Done => GetResource(LoadState(file), RIDs[i]) = GetResource(state0, RIDs[i])

\* C40 witness: an apply that changed something has ended; one resource
\* was recorded under another table name and one with another connection.
C40_Witness ==
    /\ ApplyDone
    /\ \E i \in 1..Len(log) : log[i].res = "ok"
    /\ \E r1, r2 \in Range(RIDs) :
          /\ NameOrConnOnly(r1) /\ NameOrConnOnly(r2)
          /\ GetResource(state0, r1)[1].name # Get(tables, r1).name
          /\ GetResource(state0, r2)[1].conn # Get(tables, r2).conn

(***************************************************************************)
(* RetrySpec: apply run again and again on one database; the backend may   *)
(* inject failures during the first run only                               *)
(***************************************************************************)
\* Timestamps later than MaxClock are not told apart.
MaxClock == 2

\* The column names of a recorded descriptor or of a table.
ColumnNamesOf(table) == {table.columns[i].name : i \in 1..Len(table.columns)}

\* The tables of a database that agrees with the state document st: table
\* name -> column names.
DatabaseOf(st) ==
    DictOf([i \in 1..Len(st.resources) |->
               Entry(st.resources[i].v.name, ColumnNamesOf(st.resources[i].v))])

\* The database rejects the statement on a table with these columns: ADD
\* COLUMN of a column that exists, DROP COLUMN / ALTER COLUMN / MODIFY
\* COLUMN of a column that does not.
StatementFails(columns, statement) ==
    CASE statement.kind = "ADD COLUMN" -> statement.name[1] \in columns
      [] statement.kind \in {"DROP COLUMN", "MODIFY COLUMN", "ALTER COLUMN TYPE",
                             "ALTER COLUMN SET NOT NULL", "ALTER COLUMN DROP NOT NULL",
                             "ALTER COLUMN SET DEFAULT", "ALTER COLUMN DROP DEFAULT"} ->
            statement.name[1] \notin columns
      [] OTHER -> FALSE

\* The columns after the statement took effect.
StatementEffect(columns, statement) ==
    CASE statement.kind = "ADD COLUMN" -> columns \cup {statement.name[1]}
      [] statement.kind = "DROP COLUMN" -> columns \ {statement.name[1]}
      [] OTHER -> columns

\* The first statement from i on that the database rejects, 0 when none.
RECURSIVE FirstFailure(_, _, _)
FirstFailure(columns, statements, i) ==
    IF i > Len(statements) THEN 0
    ELSE IF StatementFails(columns, statements[i]) THEN i
    ELSE FirstFailure(StatementEffect(columns, statements[i]), statements, i + 1)

RECURSIVE ColumnsAfter(_, _, _)
ColumnsAfter(columns, statements, i) ==
    IF i > Len(statements) THEN columns
    ELSE ColumnsAfter(StatementEffect(columns, statements[i]), statements, i + 1)

\* The results the backend may inject into the next operation.
Injected == IF database.faulty THEN Outcomes(backend, log) \ {"ok"} ELSE {}

\* The desired sets of RetrySpec: tables without foreign keys, each table
\* name under one resource id.
RetryConfigs(b) ==
    {tbls \in RenameConfigs(b) :
        \A i, j \in 1..Len(tbls) : tbls[i].v.name = tbls[j].v.name => i = j}

RetryInit ==
    /\ backend \in {"pg", "my"}
    /\ tables \in RetryConfigs(backend)
    /\ file \in {f \in Files(backend, tables) :
                    ~LoadRaises(f) /\ Len(LoadState(f).resources) <= MaxRecorded}
    /\ state = LoadState(file)
    /\ clock = 1
    /\ pc = "idle"
    /\ cmd = [name |-> "none", arg |-> None]
    /\ changes = <<>>
    /\ table_order = <<>>
    /\ table_name_to_resource = <<>>
    /\ idx = 1
    /\ log = <<>>
    /\ state0 = state
    /\ file0 = file
    /\ clients = <<>>
    /\ database = [faulty |-> TRUE, tables |-> DatabaseOf(state)]
    /\ dependency_graph = None
    /\ old_table = None
    /\ new_table = None
    /\ delta = None
    /\ args = None
    /\ result = None

\* apply() up to the first adapter operation, as StartApply.
RetryStart ==
    /\ pc = "idle"
    /\ cmd' = [name |-> "apply", arg |-> None]
    /\ \E chs \in {Plan(tables, state)} :
          \E order \in {TopologicalSort(BuildDependencyGraph(tables))} :
             \E pos \in {Seek(backend, chs, order, "update", 1)} :
                IF chs = <<>>
                THEN /\ pc' = "done"
                     /\ UNCHANGED <<state, file, clock, changes, table_order, idx>>
                ELSE /\ changes' = chs
                     /\ table_order' = order
                     /\ Continue(state, pos)
    /\ UNCHANGED <<backend, tables, table_name_to_resource, log, state0, file0>>
    /\ UNCHANGED <<clients, database, unit>>

\* The iteration of the update loop at idx: alter_table stops at the first
\* statement the database rejects, or at an injected failure before it.
RetryUpdate ==
    /\ pc = "update"
    /\ LET table_name == table_order[idx]
           resource_id == Get(ActionsOf(changes, "update"), table_name)[1]
           table == Get(ActionsOf(changes, "update"), table_name)[2].table
           table_changes == Get(ActionsOf(changes, "update"), table_name)[2].changes
           statements == AlterStatements(backend, table.name, table_changes)
           present == Has(database.tables, table.name)
           rejected == IF present
                       THEN FirstFailure(Get(database.tables, table.name), statements, 1)
                       ELSE 1
           reached == IF rejected = 0 THEN Len(statements) ELSE rejected
       IN  \/ \E failing \in {rejected} \cup (IF "fail" \in Injected THEN 1..reached ELSE {}) :
                LET run == AlterTable(backend, table.name, table_changes, failing)
                    res == IF run.success THEN "ok" ELSE "fail"
                IN  /\ log' = Append(log, Op("alter", table.name, resource_id,
                                            ClientConn(backend, table.conn), res))
                    /\ database' =
                          IF present
                          THEN [database EXCEPT !.tables =
                                   Put(@, table.name,
                                       ColumnsAfter(Get(@, table.name), run.effective, 1))]
                          ELSE database
                    /\ \E st \in {AfterAlter(state, resource_id, table, res)} :
                          \E pos \in {Seek(backend, changes, table_order, "update",
                                            idx + 1)} :
                             Continue(st, pos)
           \/ /\ "noconn" \in Injected
              /\ log' = Append(log, Op("alter", table.name, resource_id,
                                      ClientConn(backend, table.conn), "noconn"))
              /\ UNCHANGED database
              /\ \E pos \in {Seek(backend, changes, table_order, "update", idx + 1)} :
                    Continue(state, pos)
    /\ UNCHANGED <<backend, tables, cmd, changes, table_order,
                   table_name_to_resource, clients, state0, file0, unit>>

\* The iteration of the create loop at idx: CREATE TABLE IF NOT EXISTS.
RetryCreate ==
    /\ pc = "create"
    /\ LET table_name == table_order[idx]
           resource_id == Get(ActionsOf(changes, "create"), table_name)[1]
           table == Get(ActionsOf(changes, "create"), table_name)[2].table
       IN  \E res \in {"ok"} \cup Injected :
              /\ log' = Append(log, Op("create", table.name, resource_id,
                                      ClientConn(backend, table.conn), res))
              /\ database' =
                    IF res = "ok" /\ ~Has(database.tables, table.name)
                    THEN [database EXCEPT !.tables =
                             Put(@, table.name, ColumnNamesOf(table))]
                    ELSE database
              /\ \E st \in {AfterCreate(state, resource_id, table, res)} :
                    \E pos \in {Seek(backend, changes, table_order, "create", idx + 1)} :
                       Continue(st, pos)
    /\ UNCHANGED <<backend, tables, cmd, changes, table_order,
                   table_name_to_resource, clients, state0, file0, unit>>

\* The iteration of the delete loop at idx: DROP TABLE IF EXISTS.
RetryDelete ==
    /\ pc = "delete"
    /\ LET table_name == DeleteOrder(backend, table_order)[idx]
           resource_id == Get(ActionsOf(changes, "delete"), table_name)[1]
           current_state == GetResource(state, resource_id)
       IN  \E res \in {"ok"} \cup Injected :
              /\ log' = Append(log, Op("drop", table_name, resource_id,
                                      ClientConn(backend, current_state[1].conn), res))
              /\ database' =
                    IF res = "ok"
                    THEN [database EXCEPT !.tables = Del(@, table_name)]
                    ELSE database
              /\ \E st \in {AfterDrop(state, resource_id, res)} :
                    \E pos \in {Seek(backend, changes, table_order, "delete", idx + 1)} :
                       Continue(st, pos)
    /\ UNCHANGED <<backend, tables, cmd, changes, table_order,
                   table_name_to_resource, clients, state0, file0, unit>>

\* The program is started again with the same configuration, on the state
\* file and the database the last run left; the backend injects no failure
\* any more.
Repeat ==
    /\ pc = "done"
    /\ pc' = "idle"
    /\ cmd' = [name |-> "none", arg |-> None]
    /\ state' = LoadState(file)
    /\ state0' = LoadState(file)
    /\ file0' = file
    /\ clock' = IF clock > MaxClock THEN MaxClock ELSE clock
    /\ changes' = <<>>
    /\ table_order' = <<>>
    /\ idx' = 1
    /\ log' = <<>>
    /\ database' = [database EXCEPT !.faulty = FALSE]
    /\ UNCHANGED <<backend, tables, file, table_name_to_resource, clients, unit>>

RetryNext ==
    \/ RetryStart
    \/ RetryUpdate
    \/ RetryCreate
    \/ RetryDelete
    \/ Repeat

\* apply is repeated for ever, and every run goes on to its end.
RetrySpec == RetryInit /\ [][RetryNext]_vars /\ WF_vars(RetryNext)

\* C32: when a run of apply has ended with a failed operation, repeating
\* apply with the same desired set, on a backend that injects no failure
\* any more, leads to a run at whose end plan is empty.
C32_IdempotenceUnderRetry ==
    (pc = "done" /\ \E i \in 1..Len(log) : log[i].res # "ok")
        ~> (pc = "done" /\ Plan(tables, state) = <<>>)

====
